---- MODULE Spec2Model ----
(***************************************************************************)
(* State-machine model of the StreamsForLovers generation pipeline:        *)
(*   - SunoAPIClient (src/src/suno_api_client.py): the daily usage counter, *)
(*     the budget check and the generation coroutines that use them;        *)
(*   - the two job pollers, BackgroundGenerator._wait_for_generation and    *)
(*     ThunderComputeImageClient._wait_for_completion;                      *)
(*   - the four loops of InteractiveStreamManager (src/src/main.py).        *)
(*                                                                          *)
(* Money is counted in whole units of an arbitrary currency fraction: the   *)
(* per-generation cost is cost_per_generation units and the daily budget is *)
(* daily_budget units, so a budget that is not a multiple of the cost is    *)
(* expressible.  Dates are day numbers.                                     *)
(***************************************************************************)
EXTENDS Integers, Sequences, FiniteSets, TLC

\* ---------------------------------------------------------------- bounds
MaxAttempts == 2      \* coroutines that may call the client at the same time
MaxBudget   == 3      \* largest configured DAILY_BUDGET_USD, in units
MaxCost     == 2      \* largest per-generation cost, in units
MaxDay      == 1      \* the calendar date advances at most this many times
MaxPrompts  == 2      \* longest prompt list handed to generate_batch
MaxLatency  == 2      \* longest time, in seconds, one status request takes
MaxRequests == 2      \* generation requests the chat loop enqueues in a run
MaxBatch    == 2      \* longest message list one chat fetch returns
MaxAdmitted == 3      \* admissions of one day are counted up to this number
MaxWords    == 2      \* most words after the marker in one chat message
MaxVotes    == 2      \* votes the queue manager is given in a run

\* ------------------------------------------------------ program constants
MaxWait             == 300  \* max_wait of both pollers, seconds
FireflyPollInterval == 10   \* asyncio.sleep(10) of _wait_for_generation
ThunderPollInterval == 2    \* asyncio.sleep(2) of _wait_for_completion
ThunderErrorBackoff == 5    \* asyncio.sleep(5) of _wait_for_completion's except
ChatInterval        == 2    \* asyncio.sleep(2) of _chat_monitoring_loop
ChatBackoff         == 5    \* asyncio.sleep(5) of its except clause
GenerationInterval  == 10   \* asyncio.sleep(10) of _music_generation_loop
GenerationBackoff   == 30   \* asyncio.sleep(30) of its except clause
QueueInterval       == 5    \* asyncio.sleep(5) of _queue_management_loop
QueueBackoff        == 10   \* asyncio.sleep(10) of its except clause
StatusInterval      == 60   \* asyncio.sleep(60) of _status_monitoring_loop
StatusBackoff       == 60   \* asyncio.sleep(60) of its except clause

Attempts == 1..MaxAttempts

VARIABLES
  today,                \* datetime.now().date(), as a day number
  daily_usage,          \* SunoAPIClient.daily_usage
  daily_budget,         \* SunoAPIClient.daily_budget
  cost_per_generation,  \* SunoAPIClient.cost_per_generation
  pc,                   \* pc[a]: where coroutine a is suspended
  op,                   \* op[a]: the public method coroutine a is running
  prompts,              \* prompts[a]: len(prompts) of a's generate_batch call
  index,                \* index[a]: the loop variable i of a's generate_batch call
  results,              \* results[a]: len(results) of a's generate_batch call
  tracked,              \* tracked[a]: _track_usage calls of a's current attempt
  returned,             \* the latest return of a call: its value, the records of
                        \* its last attempt, and len(results) of a batch
  spent,                \* cost recorded by _track_usage since the last midnight
  spanned,              \* an attempt was between check and record at that midnight
  admitted,             \* budget checks passed since the last midnight (counted
                        \* up to MaxAdmitted)
  running,              \* InteractiveStreamManager.running, the stop flag
  poller,               \* which poller waits: "firefly" or "thunder"
  wait_pc,              \* where the waiting poller is
  elapsed,              \* time.time() - start_time, in seconds
  seen,                 \* what the poller's latest request told it
  outcome,              \* what the poller returned, "none" while it waits
  sleep_for,            \* the argument of the asyncio.sleep it is in
  stop_pc,              \* wait_pc when the stop flag was set, "none" before
  job_result,           \* what generate_background / generate_image returned
  fetched,              \* the asset's bytes were downloaded
  signalled,            \* _signal_handler has run
  main_pc,              \* where InteractiveStreamManager.run is
  loop_pc,              \* loop_pc[l]: where loop l is suspended
  request_queue,        \* the queue manager's pending generation requests
  playback_queue,       \* the queue manager's generated tracks
  enqueued,             \* requests added so far; request k is the k-th added
  dequeued,             \* requests handed to the generation loop, in order
  request,              \* the generation loop's variable request, 0 for None
  chat_left,            \* messages of the fetched batch not yet processed
  next_track,           \* the playback loop's variable next_track, 0 for None
  loaded,               \* the track the playback controller was last given
  playing,              \* the tracks the controller plays and has not finished
  status_log,           \* what the status loop has logged in its current pass
  message,              \* the message _process_chat_message is running on
  added,                \* what that call gave to add_user_request
  votes,                \* the queue manager's tally: votes[token]
  handled,              \* how the latest _process_chat_message call ended
  enhanced,             \* the latest prompt a generator built: by which method,
                        \* for which mood, and what the method does with it
  env,                  \* os.environ: per variable, absent, empty or set
  stats,                \* the dict the latest get_usage_stats call returned
  batch_tracked,        \* batch_tracked[a]: _track_usage calls made so far within
                        \* coroutine a's running generate_batch call, else 0
  shutdown_log          \* how shutdown() fared with each component it has been
                        \* through, in the order of self.components

clientVars == <<today, daily_usage, daily_budget, cost_per_generation, pc, op,
                prompts, index, results, tracked, returned, spent, spanned,
                admitted>>

pollerVars == <<poller, wait_pc, elapsed, seen, outcome, sleep_for, stop_pc,
                job_result, fetched>>

loopVars == <<main_pc, loop_pc, request_queue, playback_queue, enqueued, dequeued,
              request, chat_left, next_track, loaded, playing, status_log>>

inputVars == <<message, added, votes, handled, enhanced, env, stats,
               batch_tracked, shutdown_log>>

nonClientVars == <<running, signalled, pollerVars, loopVars, inputVars>>

\* Everything outside the client but the batch's record count.
managerVars == <<running, signalled, pollerVars, loopVars, message, added, votes,
                 handled, enhanced, env, stats, shutdown_log>>

nonPollerVars == <<clientVars, loopVars, inputVars>>

vars == <<clientVars, running, signalled, pollerVars, loopVars, inputVars>>

\* ------------------------------------------------- SunoAPIClient, the gate

\* SunoAPIClient.__init__: the usage counter of a freshly built client.
NewUsage(date) == [generations |-> 0, cost_estimate |-> 0, last_reset |-> date]

\* Mutant of ResetDailyUsageIfNeeded: the reset starts the count of generations
\* again and keeps the cost estimate.
ResetDailyUsageIfNeeded_KeepsCost(u, date) ==
  IF u.last_reset # date
  THEN [generations |-> 0, cost_estimate |-> u.cost_estimate, last_reset |-> date]
  ELSE u

\* _reset_daily_usage_if_needed: the counter after the lazy reset.
ResetDailyUsageIfNeeded(u, date) ==
  IF u.last_reset # date THEN NewUsage(date) ELSE u

\* Mutant of UnderBudget: a counter that has reached the budget still passes.
UnderBudget_Inclusive(u) == u.cost_estimate <= daily_budget

\* Mutant of UnderBudget: one more generation than the budget pays for passes.
UnderBudget_WithOneMore(u) ==
  u.cost_estimate < daily_budget + cost_per_generation

\* Mutant of UnderBudget: compares the number of generations, not their cost.
UnderBudget_ByCount(u) == u.generations < daily_budget

\* _check_budget's comparison, on the counter left by the reset.
UnderBudget(u) == u.cost_estimate < daily_budget

\* _check_budget: the value it returns when called on date `date`.
CheckBudget(u, date) == UnderBudget(ResetDailyUsageIfNeeded(u, date))

\* Mutant of TrackUsage: adds the cost of the generations so far, not of one.
TrackUsage_Cumulative(u) ==
  [u EXCEPT !.generations = @ + 1,
            !.cost_estimate = @ + (u.generations + 1) * cost_per_generation]

\* _track_usage: the counter after one record.  It does not look at the date.
TrackUsage(u) ==
  [u EXCEPT !.generations = @ + 1,
            !.cost_estimate = @ + cost_per_generation]

ClientInit ==
  /\ today = 0
  /\ daily_usage = NewUsage(0)
  /\ daily_budget \in 0..MaxBudget
  /\ cost_per_generation \in 1..MaxCost
  /\ pc = [a \in Attempts |-> "idle"]
  /\ op = [a \in Attempts |-> "none"]
  /\ prompts = [a \in Attempts |-> 0]
  /\ index = [a \in Attempts |-> 0]
  /\ results = [a \in Attempts |-> 0]
  /\ tracked = [a \in Attempts |-> 0]
  /\ returned = [value |-> "nothing", tracked |-> 0, results |-> 0]
  /\ spent = 0
  /\ spanned = FALSE
  /\ admitted = 0

\* No poller is waiting.
PollerIdle ==
  /\ poller = "firefly"
  /\ wait_pc = "idle"
  /\ elapsed = 0
  /\ seen = "nothing"
  /\ outcome = "none"
  /\ sleep_for = 0
  /\ stop_pc = "none"
  /\ job_result = "none"
  /\ fetched = FALSE

\* ------------------------------------------------- chat messages, as data

\* The words a chat text is made of.  A text is the marker '!' or its absence
\* followed by words separated by single spaces; a word is written in lower case
\* or in upper case.
LowerWords == {"generate", "mood", "vote", "jazzy"}

Words == LowerWords \union {"GENERATE", "JAZZY"}

\* str.lower() on one word.
Lower(w) ==
  CASE w \in {"generate", "GENERATE"} -> "generate"
    [] w \in {"mood", "MOOD"} -> "mood"
    [] w \in {"vote", "VOTE"} -> "vote"
    [] w \in {"jazzy", "JAZZY"} -> "jazzy"

\* str.upper() on one word.
Upper(w) ==
  CASE w \in {"generate", "GENERATE"} -> "GENERATE"
    [] w \in {"mood", "MOOD"} -> "MOOD"
    [] w \in {"vote", "VOTE"} -> "VOTE"
    [] w \in {"jazzy", "JAZZY"} -> "JAZZY"

\* The tokens a vote can be counted under.
Tokens == Words \union {Upper(w) : w \in Words}

\* The authors of chat messages.
Authors == {"alice", "bob"}

\* The sequences of at most n elements of S.
SeqUpTo(S, n) == UNION {[1..k -> S] : k \in 0..n}

\* message.get('text').strip() of a chat message: whether it starts with '!', and
\* the words after the marker (all its words when there is no marker).
Texts == [marker : BOOLEAN, words : SeqUpTo(Words, MaxWords)]

\* The messages get_recent_messages can return.
Messages == [text : Texts, author : Authors]

\* No _process_chat_message call is running.
NoMessage == [text |-> [marker |-> FALSE, words |-> <<>>], author |-> "nobody"]

\* add_user_request has not been called.
NoRequest == [kind |-> "none", text |-> <<>>, author |-> "nobody"]

\* A queue manager that has counted no vote.
NoVotes == [t \in Tokens |-> 0]

\* get_usage_stats has not been called.
NoStats ==
  [called |-> FALSE, daily_generations |-> 0, daily_cost |-> 0,
   budget_remaining |-> 0, generations_remaining |-> 0]

\* No generator has built a prompt.
NoPrompt == [by |-> "none", mood |-> "none", prompt |-> <<>>, then |-> "none"]

\* The environment variables main() requires (line 254).
required_env == {"YOUTUBE_API_KEY", "YOUTUBE_STREAM_KEY", "SUNO_API_KEY"}

\* The environment variables startup reads: the required ones and the budget of
\* suno_api_client.py line 81.
EnvVars == required_env \union {"DAILY_BUDGET_USD"}

\* An environment in which every variable is set to a usable value.
FullEnv == [v \in EnvVars |-> "set"]

\* The '0.60' that line 81 of suno_api_client.py uses for an absent
\* DAILY_BUDGET_USD, in hundredths of a dollar.
DefaultBudget == 60

\* The four loops run() starts.
Loops == {"chat", "generation", "queue", "status"}

\* The manager and its components hold nothing yet: no task, empty queues.
ManagerFields ==
  /\ loop_pc = [l \in Loops |-> "not_started"]
  /\ request_queue = <<>>
  /\ playback_queue = <<>>
  /\ enqueued = 0
  /\ dequeued = <<>>
  /\ request = 0
  /\ chat_left = 0
  /\ next_track = 0
  /\ loaded = 0
  /\ playing = {}
  /\ status_log = "nothing"
  /\ message = NoMessage
  /\ added = NoRequest
  /\ votes = NoVotes
  /\ handled = "nothing"
  /\ enhanced = NoPrompt
  /\ stats = NoStats
  /\ batch_tracked = [a \in Attempts |-> 0]
  /\ shutdown_log = <<>>

\* InteractiveStreamManager.__init__ (lines 35-56), with empty queues, in an
\* environment that has every variable.
ManagerInit ==
  /\ main_pc = "constructed"
  /\ env = FullEnv
  /\ ManagerFields

\* A client in use while the stream manager runs, before any signal.
Init == ClientInit /\ running = TRUE /\ signalled = FALSE /\ PollerIdle /\ ManagerInit

\* ------------------------------------------- SunoAPIClient, the coroutines

\* The statuses a backend POST can end with: HTTP 200, another HTTP status,
\* asyncio.TimeoutError, any other exception.
PostOutcomes == {"200", "error_status", "timeout", "exception"}

\* Coroutine a's call is over and hands `value` to its caller; trk is the number of
\* usage records of its last attempt and res the length of a batch's result list.
Finish(a, value, trk, res) ==
  /\ pc' = [pc EXCEPT ![a] = "idle"]
  /\ op' = [op EXCEPT ![a] = "none"]
  /\ prompts' = [prompts EXCEPT ![a] = 0]
  /\ index' = [index EXCEPT ![a] = 0]
  /\ results' = [results EXCEPT ![a] = 0]
  /\ tracked' = [tracked EXCEPT ![a] = 0]
  /\ returned' = [value |-> value, tracked |-> trk, results |-> res]

\* Mutant of Return: generate_batch appends every value generate_music returns,
\* None too.
Return_AppendsNone(a, value, trk) ==
  IF op[a] = "generate_batch"
  THEN LET res == results[a] + 1 IN
       IF index[a] < prompts[a] - 1
       THEN /\ pc' = [pc EXCEPT ![a] = "batch_sleep"]
            /\ results' = [results EXCEPT ![a] = res]
            /\ tracked' = [tracked EXCEPT ![a] = trk]
            /\ UNCHANGED <<op, prompts, index, returned>>
       ELSE Finish(a, "list", trk, res)
  ELSE Finish(a, value, trk, 0)

\* A `return value` of generate_music / extend_music after trk usage records.
\* Inside generate_batch the value goes to the loop body (lines 330-336): a truthy
\* result is appended, and the loop sleeps before its next prompt or, after the last
\* prompt, returns the list.
Return(a, value, trk) ==
  IF op[a] = "generate_batch"
  THEN LET res == results[a] + (IF value = "asset" THEN 1 ELSE 0) IN
       IF index[a] < prompts[a] - 1
       THEN /\ pc' = [pc EXCEPT ![a] = "batch_sleep"]
            /\ results' = [results EXCEPT ![a] = res]
            /\ tracked' = [tracked EXCEPT ![a] = trk]
            /\ UNCHANGED <<op, prompts, index, returned>>
       ELSE Finish(a, "list", trk, res)
  ELSE Finish(a, value, trk, 0)

\* The count of the day's admissions after one more budget check has passed.
CountAdmission == IF admitted < MaxAdmitted THEN admitted + 1 ELSE admitted

\* Mutant of CheckAndPost: the POST is sent whatever the budget check says.
CheckAndPost_IgnoresCheck(a, method) ==
  /\ daily_usage' = ResetDailyUsageIfNeeded(daily_usage, today)
  /\ pc' = [pc EXCEPT ![a] = "post"]
  /\ op' = [op EXCEPT ![a] = method]
  /\ admitted' = CountAdmission
  /\ UNCHANGED <<prompts, index, results, tracked, returned>>
  /\ UNCHANGED <<today, daily_budget, cost_per_generation, spent, spanned>>

\* Mutant of CheckAndPost: a call that is rejected at the budget check is counted
\* by _track_usage before it returns None.
CheckAndPost_RecordsRejection(a, method) ==
  LET u == ResetDailyUsageIfNeeded(daily_usage, today) IN
  /\ IF UnderBudget(u)
     THEN /\ daily_usage' = u
          /\ pc' = [pc EXCEPT ![a] = "post"]
          /\ op' = [op EXCEPT ![a] = method]
          /\ admitted' = CountAdmission
          /\ UNCHANGED <<prompts, index, results, tracked, returned>>
     ELSE /\ daily_usage' = TrackUsage(u)
          /\ Finish(a, "None", 0, 0)
          /\ UNCHANGED admitted
  /\ UNCHANGED <<today, daily_budget, cost_per_generation, spent, spanned>>

\* Lines 133-164 of generate_music (287-304 of extend_music): the budget check and,
\* when it passes, everything up to the await of the backend POST.  No await lies
\* between the check and the POST, so this is one step of the event loop.
CheckAndPost(a, method) ==
  LET u == ResetDailyUsageIfNeeded(daily_usage, today) IN
  /\ daily_usage' = u
  /\ IF UnderBudget(u)
     THEN /\ pc' = [pc EXCEPT ![a] = "post"]
          /\ op' = [op EXCEPT ![a] = method]
          /\ admitted' = CountAdmission
          /\ UNCHANGED <<prompts, index, results, tracked, returned>>
     ELSE Finish(a, "None", 0, 0) /\ UNCHANGED admitted
  /\ UNCHANGED <<today, daily_budget, cost_per_generation, spent, spanned>>

\* A caller starts generate_music.
GenerateMusic(a) ==
  /\ pc[a] = "idle"
  /\ CheckAndPost(a, "generate_music")
  /\ UNCHANGED nonClientVars

\* A caller starts extend_music.
ExtendMusic(a) ==
  /\ pc[a] = "idle"
  /\ CheckAndPost(a, "extend_music")
  /\ UNCHANGED nonClientVars

\* One pass of generate_batch's for loop over n prompts, at index i with res results
\* so far (lines 325-330): leave the loop when the prompts are used up or the budget
\* check fails, else enter generate_music, whose own check sees the same counter and
\* date and passes too.
BatchIteration(a, n, i, res) ==
  LET u == ResetDailyUsageIfNeeded(daily_usage, today) IN
  /\ IF i >= n
     THEN /\ Finish(a, "list", tracked[a], res)
          /\ UNCHANGED <<daily_usage, admitted>>
     ELSE /\ daily_usage' = u
          /\ IF UnderBudget(u)
             THEN /\ pc' = [pc EXCEPT ![a] = "post"]
                  /\ op' = [op EXCEPT ![a] = "generate_batch"]
                  /\ prompts' = [prompts EXCEPT ![a] = n]
                  /\ index' = [index EXCEPT ![a] = i]
                  /\ results' = [results EXCEPT ![a] = res]
                  /\ tracked' = [tracked EXCEPT ![a] = 0]
                  /\ admitted' = CountAdmission
                  /\ UNCHANGED returned
             ELSE Finish(a, "list", tracked[a], res) /\ UNCHANGED admitted
  /\ UNCHANGED <<today, daily_budget, cost_per_generation, spent, spanned>>

\* The usage records made so far by coroutine a's generate_batch call after a step
\* that made `made` of them; the count is kept only while the call lasts.
BatchTracked(a, made) ==
  [batch_tracked EXCEPT ![a] = IF op'[a] = "generate_batch" THEN @ + made ELSE 0]

\* A caller starts generate_batch with n prompts.
GenerateBatch(a) ==
  /\ pc[a] = "idle"
  /\ \E n \in 0..MaxPrompts : BatchIteration(a, n, 0, 0)
  /\ batch_tracked' = [batch_tracked EXCEPT ![a] = 0]
  /\ UNCHANGED managerVars

\* asyncio.sleep(2) of generate_batch ends; the loop goes on with the next prompt.
BatchWake(a) ==
  /\ pc[a] = "batch_sleep"
  /\ BatchIteration(a, prompts[a], index[a] + 1, results[a])
  /\ batch_tracked' = BatchTracked(a, 0)
  /\ UNCHANGED managerVars

\* The backend POST ends (lines 159-184, 299-319).  On HTTP 200 the coroutine goes
\* on to await response.json(); on anything else it returns None.
PostResponds(a) ==
  /\ pc[a] = "post"
  /\ \E status \in PostOutcomes :
       IF status = "200"
       THEN /\ pc' = [pc EXCEPT ![a] = "json"]
            /\ UNCHANGED <<op, prompts, index, results, tracked, returned>>
       ELSE Return(a, "None", tracked[a])
  /\ batch_tracked' = BatchTracked(a, 0)
  /\ UNCHANGED <<today, daily_usage, daily_budget, cost_per_generation, spent,
                 spanned, admitted, managerVars>>

\* response.json() ends (lines 167-173, 307-311).  If it raises, the except clause
\* returns None.  Else _track_usage runs and _process_generation_result starts
\* (lines 222-231): without an audio URL it returns None at once, with one it awaits
\* the download.
JsonRead(a) ==
  /\ pc[a] = "json"
  /\ \E parsed \in BOOLEAN, has_url \in BOOLEAN :
       IF ~parsed
       THEN /\ Return(a, "None", tracked[a])
            /\ UNCHANGED <<daily_usage, spent>>
       ELSE /\ daily_usage' = TrackUsage(daily_usage)
            /\ spent' = spent + cost_per_generation
            /\ IF has_url
               THEN /\ pc' = [pc EXCEPT ![a] = "download"]
                    /\ tracked' = [tracked EXCEPT ![a] = @ + 1]
                    /\ UNCHANGED <<op, prompts, index, results, returned>>
               ELSE Return(a, "None", tracked[a] + 1)
  /\ batch_tracked' =
       BatchTracked(a, IF daily_usage'.generations > daily_usage.generations
                       THEN 1 ELSE 0)
  /\ UNCHANGED <<today, daily_budget, cost_per_generation, spanned, admitted,
                 managerVars>>

\* _download_audio ends (lines 231-250): a file name gives the result dict, None
\* (HTTP status other than 200, or an exception) gives None.
DownloadAudio(a) ==
  /\ pc[a] = "download"
  /\ \E downloaded \in BOOLEAN :
       Return(a, IF downloaded THEN "asset" ELSE "None", tracked[a])
  /\ batch_tracked' = BatchTracked(a, 0)
  /\ UNCHANGED <<today, daily_usage, daily_budget, cost_per_generation, spent,
                 spanned, admitted, managerVars>>

\* An attempt of coroutine a has passed its budget check and not yet recorded.
Admitted(a) == pc[a] \in {"post", "json"}

\* The calendar date changes.
Midnight ==
  /\ today < MaxDay
  /\ today' = today + 1
  /\ spent' = 0
  /\ spanned' = (\E a \in Attempts : Admitted(a))
  /\ admitted' = 0
  /\ UNCHANGED <<daily_usage, daily_budget, cost_per_generation, pc, op, prompts,
                 index, results, tracked, returned, nonClientVars>>

\* int() of Python on the quotient a / b, b > 0: the quotient without its
\* fraction, rounded towards zero.
IntOfQuotient(a, b) == IF a >= 0 THEN a \div b ELSE -((-a) \div b)

\* The dict get_usage_stats returns for counter u (lines 344-352).
UsageStats(u) ==
  LET budget_remaining == daily_budget - u.cost_estimate
      generations_remaining ==
        IntOfQuotient(budget_remaining, cost_per_generation) IN
  [called |-> TRUE,
   daily_generations |-> u.generations,
   daily_cost |-> u.cost_estimate,
   budget_remaining |-> budget_remaining,
   generations_remaining |->
     IF generations_remaining > 0 THEN generations_remaining ELSE 0]

\* get_usage_stats (lines 340-353): the lazy reset, then the dict.  It has no
\* await, so it is one step whenever it is called.
GetUsageStats ==
  LET u == ResetDailyUsageIfNeeded(daily_usage, today) IN
  /\ daily_usage' = u
  /\ stats' = UsageStats(u)
  /\ UNCHANGED <<today, daily_budget, cost_per_generation, pc, op, prompts, index,
                 results, tracked, returned, spent, spanned, admitted>>
  /\ UNCHANGED <<message, added, votes, handled, enhanced, env, batch_tracked, shutdown_log>>
  /\ UNCHANGED <<running, signalled, pollerVars, loopVars>>

\* Any number of coroutines use the client at once.
Next ==
  \/ \E a \in Attempts : GenerateMusic(a)
  \/ \E a \in Attempts : ExtendMusic(a)
  \/ \E a \in Attempts : GenerateBatch(a)
  \/ \E a \in Attempts : BatchWake(a)
  \/ \E a \in Attempts : PostResponds(a)
  \/ \E a \in Attempts : JsonRead(a)
  \/ \E a \in Attempts : DownloadAudio(a)
  \/ Midnight

Spec == Init /\ [][Next]_vars

\* No call is in flight.
AllIdle == \A a \in Attempts : pc[a] = "idle"

\* One caller that awaits each call before it makes the next, as generate_batch
\* and the generation loop of main.py do.
SeqNext ==
  \/ \E a \in Attempts : AllIdle /\ GenerateMusic(a)
  \/ \E a \in Attempts : AllIdle /\ ExtendMusic(a)
  \/ \E a \in Attempts : AllIdle /\ GenerateBatch(a)
  \/ \E a \in Attempts : BatchWake(a)
  \/ \E a \in Attempts : PostResponds(a)
  \/ \E a \in Attempts : JsonRead(a)
  \/ \E a \in Attempts : DownloadAudio(a)
  \/ Midnight

SpecSeq == Init /\ [][SeqNext]_vars

\* One caller of generate_music at a time, and readers of the statistics.
StatsNext ==
  \/ \E a \in Attempts : AllIdle /\ GenerateMusic(a)
  \/ \E a \in Attempts : PostResponds(a)
  \/ \E a \in Attempts : JsonRead(a)
  \/ \E a \in Attempts : DownloadAudio(a)
  \/ Midnight
  \/ GetUsageStats

SpecStats == Init /\ [][StatsNext]_vars

\* ------------------------------------------------------- the job pollers

\* The wait_pc values in which a status request is in flight.
RequestPcs == {"job", "queue", "history", "view"}

\* What a GET of /jobs/{job_id} can tell _wait_for_generation: status completed,
\* status failed, any other status, an HTTP status other than 200, an exception.
JobReplies == {"completed", "failed", "pending", "http_error", "exception"}

\* What the GET of /queue can tell _wait_for_completion.
QueueReplies == {"in_queue", "not_in_queue", "http_error", "exception"}

\* What the GET of /history can tell it: an entry of the prompt with an image, no
\* entry of the prompt yet, an entry that reports an execution error and has no
\* image, an HTTP status other than 200, an exception.
HistoryReplies == {"has_image", "no_image", "error_entry", "http_error", "exception"}

\* What the GET of /view can tell it.
ViewReplies == {"image", "http_error", "exception"}

\* What the POST that submits the work can tell generate_background /
\* generate_image: HTTP 200 with a job identifier (job_id, prompt_id), HTTP 200
\* with the result and no identifier, another HTTP status, an exception.
SubmitReplies == {"job_id", "direct_result", "http_error", "exception"}

\* generate_background or generate_image is called and sends its POST (lines
\* 141-151 and 222-241 of background_generator.py, 192-202 of
\* thunder_image_client.py).
Submit ==
  /\ wait_pc = "idle"
  /\ poller' \in {"firefly", "thunder"}
  /\ wait_pc' = "submit"
  /\ UNCHANGED <<elapsed, seen, outcome, sleep_for, stop_pc, job_result, fetched,
                 running, signalled, nonPollerVars>>

\* The POST answered with a job identifier: the wait starts with
\* start_time = time.time().
StartWait ==
  /\ wait_pc = "submit"
  /\ seen' = "job_id"
  /\ wait_pc' = "loop"
  /\ UNCHANGED <<poller, elapsed, outcome, sleep_for, stop_pc, job_result, fetched,
                 running, signalled, nonPollerVars>>

\* Mutant of AfterSubmit: the image client takes a result without identifier too.
AfterSubmit_AlwaysTakesResult(reply) ==
  IF reply = "direct_result" THEN "download" ELSE "done"

\* Where the call goes after a POST that gave no job identifier.  Lines 243-258 of
\* _call_firefly_api return a 200 body as the result and None otherwise; lines
\* 204-213 of generate_image return None in every such case.
AfterSubmit(reply) ==
  IF reply = "direct_result" /\ poller = "firefly" THEN "download" ELSE "done"

\* The POST ends without a job identifier.
SubmitReplied ==
  /\ wait_pc = "submit"
  /\ \E reply \in SubmitReplies \ {"job_id"} :
       /\ seen' = reply
       /\ wait_pc' = AfterSubmit(reply)
       /\ IF wait_pc' = "download"
          THEN outcome' = "completed" /\ UNCHANGED job_result
          ELSE outcome' = "failed" /\ job_result' = "None"
  /\ UNCHANGED <<poller, elapsed, sleep_for, stop_pc, fetched, running, signalled,
                 nonPollerVars>>

\* Mutant of WaitCondition: lets an iteration start when max_wait has just elapsed.
WaitCondition_Inclusive(t) == t <= MaxWait

\* The while condition of both pollers: time.time() - start_time < max_wait.
WaitCondition(t) == t < MaxWait

\* The while condition is evaluated: the next request is sent, or the loop ends
\* and the poller returns None (timeout).
WaitLoop ==
  /\ wait_pc = "loop"
  /\ IF WaitCondition(elapsed)
     THEN /\ wait_pc' = (IF poller = "firefly" THEN "job" ELSE "queue")
          /\ UNCHANGED outcome
     ELSE /\ wait_pc' = "returned"
          /\ outcome' = "timed_out"
  /\ UNCHANGED <<poller, elapsed, seen, sleep_for, stop_pc, running, signalled,
                 nonPollerVars, job_result, fetched>>

\* Mutant of AfterJobReply: a failed job is treated as still in progress.
AfterJobReply_FailedGoesOn(reply) ==
  IF reply = "completed" THEN "returned" ELSE "sleep"

\* Mutant of AfterJobReply: a poll that errors ends the wait.
AfterJobReply_ErrorEnds(reply) ==
  IF reply \in {"completed", "failed", "http_error", "exception"}
  THEN "returned" ELSE "sleep"

\* Lines 272-292 of _wait_for_generation: where the poller goes after a reply.
AfterJobReply(reply) ==
  IF reply \in {"completed", "failed"} THEN "returned" ELSE "sleep"

\* requests.get of _wait_for_generation ends after d seconds (lines 266-292).
JobReplied ==
  /\ wait_pc = "job"
  /\ \E d \in 0..MaxLatency, reply \in JobReplies :
       /\ elapsed' = elapsed + d
       /\ seen' = reply
       /\ wait_pc' = AfterJobReply(reply)
       /\ outcome' = (IF wait_pc' = "returned" THEN reply ELSE outcome)
       /\ sleep_for' = (IF wait_pc' = "sleep" THEN FireflyPollInterval ELSE sleep_for)
  /\ UNCHANGED <<poller, stop_pc, running, signalled, nonPollerVars,
                 job_result, fetched>>

\* Mutant of ThunderSleep: after an exception the next pass starts at once.
ThunderSleep_RetriesAtOnce(reply) ==
  IF reply = "exception" THEN 0 ELSE ThunderPollInterval

\* The sleep of _wait_for_completion after a reply that does not go on to the next
\* request: 5 seconds in the except clause, 2 seconds otherwise (lines 284-289).
ThunderSleep(reply) ==
  IF reply = "exception" THEN ThunderErrorBackoff ELSE ThunderPollInterval

\* The GET of /queue ends after d seconds (lines 251-257).
QueueReplied ==
  /\ wait_pc = "queue"
  /\ \E d \in 0..MaxLatency, reply \in QueueReplies :
       /\ elapsed' = elapsed + d
       /\ seen' = reply
       /\ IF reply = "not_in_queue"
          THEN /\ wait_pc' = "history"
               /\ UNCHANGED sleep_for
          ELSE /\ wait_pc' = "sleep"
               /\ sleep_for' = ThunderSleep(reply)
  /\ UNCHANGED <<poller, outcome, stop_pc, running, signalled, nonPollerVars,
                 job_result, fetched>>

\* The GET of /history ends after d seconds (lines 259-278).
HistoryReplied ==
  /\ wait_pc = "history"
  /\ \E d \in 0..MaxLatency, reply \in HistoryReplies :
       /\ elapsed' = elapsed + d
       /\ seen' = reply
       /\ IF reply = "has_image"
          THEN /\ wait_pc' = "view"
               /\ UNCHANGED sleep_for
          ELSE /\ wait_pc' = "sleep"
               /\ sleep_for' = ThunderSleep(reply)
  /\ UNCHANGED <<poller, outcome, stop_pc, running, signalled, nonPollerVars,
                 job_result, fetched>>

\* The GET of /view ends after d seconds (lines 280-282): with status 200 the
\* image bytes are returned.
ViewReplied ==
  /\ wait_pc = "view"
  /\ \E d \in 0..MaxLatency, reply \in ViewReplies :
       /\ elapsed' = elapsed + d
       /\ IF reply = "image"
          THEN /\ seen' = "completed"
               /\ wait_pc' = "returned"
               /\ outcome' = "completed"
               /\ fetched' = TRUE
               /\ UNCHANGED sleep_for
          ELSE /\ seen' = reply
               /\ wait_pc' = "sleep"
               /\ sleep_for' = ThunderSleep(reply)
               /\ UNCHANGED <<outcome, fetched>>
  /\ UNCHANGED <<poller, stop_pc, job_result, running, signalled, nonPollerVars>>

\* asyncio.sleep ends; the loop goes back to its while condition.
Wake ==
  /\ wait_pc = "sleep"
  /\ elapsed' = elapsed + sleep_for
  /\ wait_pc' = "loop"
  /\ UNCHANGED <<poller, seen, outcome, sleep_for, stop_pc, running, signalled,
                 nonPollerVars, job_result, fetched>>

\* The poller has returned to its caller.  generate_image returns the image bytes
\* it got, or None (lines 217-229); _call_firefly_api hands the job's result to
\* generate_background, which goes on to _download_video, or returns None (lines
\* 151-172).
PollerReturned ==
  /\ wait_pc = "returned"
  /\ IF outcome = "completed"
     THEN IF poller = "firefly"
          THEN wait_pc' = "download" /\ UNCHANGED job_result
          ELSE wait_pc' = "done" /\ job_result' = "asset"
     ELSE wait_pc' = "done" /\ job_result' = "None"
  /\ UNCHANGED <<poller, elapsed, seen, outcome, sleep_for, stop_pc, fetched,
                 running, signalled, nonPollerVars>>

\* How _download_video can end (lines 297-323): the file is saved, the result has
\* no download URL, the GET fails or raises.
DownloadOutcomes == {"saved", "no_url", "failed"}

\* Mutant of AfterDownload: a failed download still yields a result, which then
\* holds the remote reference only.
AfterDownload_KeepsReference(r) == "asset"

\* The public result of generate_background after _download_video (lines 155-172).
AfterDownload(r) == IF r = "saved" THEN "asset" ELSE "None"

\* _download_video ends; generate_background returns.
VideoDownloaded ==
  /\ wait_pc = "download"
  /\ \E r \in DownloadOutcomes :
       /\ fetched' = (r = "saved")
       /\ job_result' = AfterDownload(r)
  /\ wait_pc' = "done"
  /\ UNCHANGED <<poller, elapsed, seen, outcome, sleep_for, stop_pc, running,
                 signalled, nonPollerVars>>

\* _signal_handler of main.py (lines 58-61): the stop flag is set.
SignalHandler ==
  /\ ~signalled
  /\ signalled' = TRUE
  /\ running' = FALSE
  /\ stop_pc' = wait_pc
  /\ UNCHANGED <<clientVars, poller, wait_pc, elapsed, seen, outcome, sleep_for,
                 main_pc, loop_pc, request_queue, playback_queue, enqueued,
                 dequeued, request, chat_left, next_track, loaded, playing,
                 status_log, job_result, fetched, inputVars>>

PollerNext ==
  \/ Submit
  \/ StartWait
  \/ SubmitReplied
  \/ PollerReturned
  \/ VideoDownloaded
  \/ WaitLoop
  \/ JobReplied
  \/ QueueReplied
  \/ HistoryReplied
  \/ ViewReplied
  \/ Wake
  \/ SignalHandler

SpecPoller == Init /\ [][PollerNext]_vars

\* No call of the music client has been made.
ClientUnused == AllIdle /\ returned.value = "nothing"

\* The three generators share no state.  An execution uses one of them: calls of
\* the music client, one after the other, or one call of generate_background or
\* generate_image.
AssetsNext ==
  \/ wait_pc = "idle" /\ SeqNext
  \/ ClientUnused /\ PollerNext

SpecAssets == Init /\ [][AssetsNext]_vars

\* ------------------------------------ InteractiveStreamManager, the loops

\* The coroutine slot of the client that the generation loop calls.
GenAttempt == 1

\* The kinds of chat message _process_chat_message tells apart: "!generate" and
\* "!mood" with an argument, "!vote" with an argument, the marker with nothing
\* after it, and text it ignores (no marker, an unknown verb, a verb alone).
MessageKinds == {"generate", "mood", "vote", "bare_marker", "ignored"}

\* The first await of each loop's body.
FirstAwait(l) ==
  CASE l = "chat" -> "fetch"
    [] l = "generation" -> "get"
    [] l = "queue" -> "finished"
    [] l = "status" -> "snapshot"

\* The argument of the asyncio.sleep that ends a pass of loop l: the one of the
\* try block ("sleep") or the one of the except clause ("backoff").
SleepTime(l, p) ==
  CASE l = "chat" -> (IF p = "sleep" THEN ChatInterval ELSE ChatBackoff)
    [] l = "generation" ->
         (IF p = "sleep" THEN GenerationInterval ELSE GenerationBackoff)
    [] l = "queue" -> (IF p = "sleep" THEN QueueInterval ELSE QueueBackoff)
    [] l = "status" -> (IF p = "sleep" THEN StatusInterval ELSE StatusBackoff)

\* Loop l runs on to its next await, p.
Goto(l, p) == loop_pc' = [loop_pc EXCEPT ![l] = p]

\* missing_env of main() (line 255): os.getenv gives None for an absent variable
\* and '' for an empty one, and not holds of both.
MissingEnv(e) == {v \in required_env : e[v] # "set"}

\* main() checks the environment (lines 254-260): sys.exit(1) when a required
\* variable is missing.
Main ==
  /\ main_pc = "main"
  /\ main_pc' = IF MissingEnv(env) # {} THEN "exited" ELSE "checked"
  /\ UNCHANGED <<clientVars, running, signalled, pollerVars, loop_pc,
                 request_queue, playback_queue, enqueued, dequeued, request,
                 chat_left, next_track, loaded, status_log, playing, inputVars>>

\* SunoAPIClient.__init__ raises: no API key (line 26), or float() of an empty
\* DAILY_BUDGET_USD (line 81).
ClientInitRaises(e) ==
  e["SUNO_API_KEY"] # "set" \/ e["DAILY_BUDGET_USD"] = "empty"

\* main() constructs the stream manager (line 263, outside the try block), which
\* constructs its components (lines 40-44).  The music client reads its budget as
\* SunoAPIClient.__init__ does: the value of DAILY_BUDGET_USD, or the default for
\* an absent one.  An exception of a constructor ends the process.
Construct ==
  /\ main_pc = "checked"
  /\ \/ /\ main_pc' = "crashed"
        /\ UNCHANGED daily_budget
     \/ /\ ~ClientInitRaises(env)
        /\ main_pc' = "constructed"
        /\ IF env["DAILY_BUDGET_USD"] = "absent"
           THEN daily_budget' = DefaultBudget
           ELSE daily_budget' \in 1..MaxBudget
  /\ running' = FALSE
  /\ UNCHANGED <<today, daily_usage, cost_per_generation, pc, op, prompts, index,
                 results, tracked, returned, spent, spanned, admitted>>
  /\ UNCHANGED <<signalled, pollerVars, loop_pc, request_queue, playback_queue,
                 enqueued, dequeued, request, chat_left, next_track, loaded,
                 status_log, playing, inputVars>>

\* run() is called (line 88): it awaits initialize().
Run ==
  /\ main_pc = "constructed"
  /\ main_pc' = "initializing"
  /\ UNCHANGED <<clientVars, running, signalled, pollerVars, loop_pc,
                 request_queue, playback_queue, enqueued, dequeued, request,
                 chat_left, next_track, loaded, status_log, playing, inputVars>>

\* Mutant of Initialized: run() creates the four tasks whatever initialize()
\* returned.
Initialized_StartsAnyway ==
  /\ main_pc = "initializing"
  /\ \E ok \in BOOLEAN :
       /\ main_pc' = IF ok THEN "gather" ELSE "returned"
       /\ running' = TRUE
       /\ loop_pc' = [l \in Loops |-> "top"]
  /\ UNCHANGED <<clientVars, signalled, pollerVars, request_queue,
                 playback_queue, enqueued, dequeued, request, chat_left,
                 next_track, loaded, status_log, playing, inputVars>>

\* initialize() returns (lines 88-100): on False run() returns, on True it sets
\* running and creates the four tasks.
Initialized ==
  /\ main_pc = "initializing"
  /\ \E ok \in BOOLEAN :
       IF ok
       THEN /\ running' = TRUE
            /\ main_pc' = "gather"
            /\ loop_pc' = [l \in Loops |-> "top"]
       ELSE /\ main_pc' = "returned"
            /\ UNCHANGED <<running, loop_pc>>
  /\ UNCHANGED <<clientVars, signalled, pollerVars, request_queue,
                 playback_queue, enqueued, dequeued, request, chat_left,
                 next_track, loaded, status_log, playing, inputVars>>

\* The while condition of the four loops: self.running.
LoopCondition == running

\* The task of loop l runs for the first time, or the asyncio.sleep that ended
\* its last pass is over: the loop evaluates its while condition (lines 115,
\* 161, 192, 217) and runs on to the first await of its body, or ends.
LoopTop(l) ==
  /\ loop_pc[l] \in {"top", "sleep", "backoff"}
  /\ Goto(l, IF LoopCondition THEN FirstAwait(l) ELSE "exited")
  /\ status_log' = IF l = "status" THEN "nothing" ELSE status_log
  /\ UNCHANGED <<clientVars, running, signalled, pollerVars, main_pc,
                 request_queue, playback_queue, enqueued, dequeued, request,
                 chat_left, next_track, loaded, playing, inputVars>>

\* get_recent_messages returns n messages or raises (lines 118-127).
ChatFetched ==
  /\ loop_pc["chat"] = "fetch"
  /\ \/ /\ Goto("chat", "backoff")
        /\ UNCHANGED chat_left
     \/ \E n \in 0..MaxBatch :
          /\ chat_left' = n
          /\ Goto("chat", IF n = 0 THEN "sleep" ELSE "message")
  /\ UNCHANGED <<clientVars, running, signalled, pollerVars, main_pc,
                 request_queue, playback_queue, enqueued, dequeued, request,
                 next_track, loaded, status_log, playing, inputVars>>

\* The chat loop is done with one message of the batch.
NextMessage ==
  /\ chat_left' = chat_left - 1
  /\ Goto("chat", IF chat_left = 1 THEN "sleep" ELSE "message")

\* Mutant of BatchAborted: the exception leaves the while loop too.
BatchAborted_EndsLoop ==
  /\ chat_left' = 0
  /\ Goto("chat", "exited")

\* An exception leaves the for loop of line 120: the rest of the batch is dropped.
BatchAborted ==
  /\ chat_left' = 0
  /\ Goto("chat", "backoff")

\* add_user_request of the queue manager: the request goes to the end of the queue.
AddUserRequest ==
  /\ enqueued' = enqueued + 1
  /\ request_queue' = Append(request_queue, enqueued + 1)

\* _process_chat_message on the next message of the batch (lines 129-155).
ChatMessage ==
  /\ loop_pc["chat"] = "message"
  /\ \E kind \in MessageKinds, ok \in BOOLEAN :
       CASE kind \in {"generate", "mood"} ->
              /\ enqueued < MaxRequests
              /\ IF ok
                 THEN AddUserRequest /\ NextMessage
                 ELSE BatchAborted /\ UNCHANGED <<enqueued, request_queue>>
         [] kind = "vote" ->
              /\ IF ok THEN NextMessage ELSE BatchAborted
              /\ UNCHANGED <<enqueued, request_queue>>
         [] kind = "bare_marker" ->
              /\ ok
              /\ BatchAborted
              /\ UNCHANGED <<enqueued, request_queue>>
         [] kind = "ignored" ->
              /\ ok
              /\ NextMessage
              /\ UNCHANGED <<enqueued, request_queue>>
  /\ UNCHANGED <<clientVars, running, signalled, pollerVars, main_pc,
                 playback_queue, dequeued, request, next_track, loaded,
                 status_log, playing, inputVars>>

\* text[1:].lower().split() (line 135): the words after the marker, in lower case.
Command(text) == [i \in 1..Len(text.words) |-> Lower(text.words[i])]

\* Mutant of HasArgument: "generate" alone counts as a command with an argument.
HasArgument_EmptyPrompt(command) == Len(command) > 1 \/ command[1] = "generate"

\* len(command) > 1 (lines 137, 144, 151).
HasArgument(command) == Len(command) > 1

\* The verbs _process_chat_message knows.
Verbs == {"generate", "mood", "vote"}

\* The branch of _process_chat_message a text takes (lines 134-151).  command[0]
\* of an empty list raises IndexError.
KindOf(text) ==
  IF ~text.marker THEN "ignored"
  ELSE LET command == Command(text) IN
       IF command = <<>> THEN "bare_marker"
       ELSE IF command[1] \in Verbs /\ HasArgument(command) THEN command[1]
       ELSE "ignored"

\* ' '.join(command[1:]) (lines 139, 146): the words after the verb.
PromptText(command) == Tail(command)

\* Mutant of VoteOf: the token is counted as it was typed.
VoteOf_AsTyped(text) == text.words[2]

\* command[1].upper() (line 153): the token the vote is counted under.
VoteOf(text) == Upper(Command(text)[2])

\* The votes counted so far.
RECURSIVE SumVotes(_)
SumVotes(S) ==
  IF S = {} THEN 0
  ELSE LET t == CHOOSE x \in S : TRUE IN votes[t] + SumVotes(S \ {t})

\* process_vote of the queue manager: one more vote in the tally of the token.
ProcessVote(token) ==
  /\ votes' = [votes EXCEPT ![token] = @ + 1]
  /\ UNCHANGED <<request_queue, enqueued>>

\* Mutant of VoteBranch: a vote is also queued as a generation request.
VoteBranch_AlsoRequests(text) ==
  /\ votes' = [votes EXCEPT ![VoteOf(text)] = @ + 1]
  /\ enqueued < MaxRequests
  /\ AddUserRequest

\* The vote branch of _process_chat_message (lines 151-155): its one call of the
\* queue manager is process_vote.
VoteBranch(text) == ProcessVote(VoteOf(text))

\* The for loop of line 120 hands a message to _process_chat_message.
ChatReceives ==
  /\ message = NoMessage
  /\ \E m \in Messages :
       /\ KindOf(m.text) \in {"generate", "mood"} => enqueued < MaxRequests
       /\ KindOf(m.text) = "vote" => SumVotes(Tokens) < MaxVotes
       /\ message' = m
  /\ added' = NoRequest
  /\ handled' = "nothing"
  /\ UNCHANGED <<votes, enhanced, env, stats, batch_tracked, shutdown_log, clientVars, running, signalled, pollerVars,
                 loopVars>>

\* _process_chat_message runs on the message (lines 129-155).  A call of the
\* prompt generator or of the queue manager returns or raises.  When the chat
\* loop made the call, it goes on to the next message of the batch, or its
\* except clause takes the exception (lines 120-127).
ProcessChatMessage ==
  /\ message # NoMessage
  /\ message' = NoMessage
  /\ LET text == message.text
         kind == KindOf(text) IN
     CASE kind \in {"generate", "mood"} ->
            \/ /\ AddUserRequest
               /\ added' = [kind |-> kind,
                            text |-> PromptText(Command(text)),
                            author |-> message.author]
               /\ handled' = "returned"
               /\ UNCHANGED votes
            \/ /\ handled' = "raised"
               /\ UNCHANGED <<added, votes, request_queue, enqueued>>
       [] kind = "vote" ->
            \/ /\ VoteBranch(text)
               /\ handled' = "returned"
               /\ UNCHANGED added
            \/ /\ handled' = "raised"
               /\ UNCHANGED <<added, votes, request_queue, enqueued>>
       [] kind = "bare_marker" ->
            /\ handled' = "raised"
            /\ UNCHANGED <<added, votes, request_queue, enqueued>>
       [] kind = "ignored" ->
            /\ handled' = "returned"
            /\ UNCHANGED <<added, votes, request_queue, enqueued>>
  /\ IF loop_pc["chat"] = "message"
     THEN IF handled' = "raised" THEN BatchAborted ELSE NextMessage
     ELSE UNCHANGED <<chat_left, loop_pc>>
  /\ UNCHANGED <<clientVars, running, signalled, pollerVars, main_pc,
                 playback_queue, dequeued, request, next_track,
                 loaded, playing, status_log, enhanced, env, stats,
                 batch_tracked, shutdown_log>>

\* The chat loop's calls of _process_chat_message, one message after the other.
ChatNext == ChatReceives \/ ProcessChatMessage

\* _process_chat_message reads nothing of the music client: one budget stands
\* for all.
ChatInit == Init /\ daily_budget = MaxBudget /\ cost_per_generation = MaxCost

SpecChat == ChatInit /\ [][ChatNext]_vars

\* The chat loop alone: run() starts it, and it fetches batches of messages and
\* hands them to _process_chat_message one by one (lines 115-127).
BatchNext ==
  \/ Run
  \/ Initialized
  \/ LoopTop("chat")
  \/ ChatFetched
  \/ loop_pc["chat"] = "message" /\ ChatReceives
  \/ ProcessChatMessage

SpecBatch == ChatInit /\ [][BatchNext]_vars

\* ------------------------------------------------ the prompts and the moods

\* The keys of SunoAPIClient.city_pop_templates.
CityPopMoods == {"chill", "energetic", "romantic", "melancholic", "study"}

\* The keys of BackgroundGenerator.mood_prompts.
BackgroundMoods ==
  {"chill", "energetic", "ambient", "jazz", "electronic", "nature", "study",
   "rain"}

\* The mood tags a caller passes: the keys of both tables and two that are in
\* neither.
MoodTags == CityPopMoods \union BackgroundMoods \union {"general", "funky"}

\* datetime.now().hour and datetime.now().month.
Hours == 0..23

Months == 1..12

\* One piece of a prompt: what it is ("mood", "user", "text", "time", "season",
\* "technical") and which one of its kind.
Fragment(part, of) == [part |-> part, of |-> of]

\* Mutant of TemplateMood: an unknown mood gets no template.
TemplateMood_NoFallback(mood) == IF mood \in CityPopMoods THEN mood ELSE "none"

\* The mood whose first template _enhance_city_pop_prompt uses (lines 190-194).
TemplateMood(mood) == IF mood \in CityPopMoods THEN mood ELSE "chill"

\* The time-of-day words _enhance_city_pop_prompt adds (lines 206-214).
CityPopTime(hour) ==
  IF 22 <= hour \/ hour < 6 THEN "late_night"
  ELSE IF 6 <= hour /\ hour < 12 THEN "morning"
  ELSE IF 12 <= hour /\ hour < 18 THEN "afternoon"
  ELSE "evening"

\* _enhance_city_pop_prompt (lines 186-216); has_text is base_prompt.strip().
EnhanceCityPopPrompt(has_text, mood, hour) ==
  LET template == IF TemplateMood(mood) = "none" THEN <<>>
                  ELSE <<Fragment("mood", TemplateMood(mood))>> IN
  template
    \o (IF has_text THEN <<Fragment("user", "base_prompt")>> ELSE <<>>)
    \o <<Fragment("technical", "city_pop")>>
    \o <<Fragment("time", CityPopTime(hour))>>

\* The key of time_themes _enhance_prompt uses.
TimeTheme(hour) ==
  IF 5 <= hour /\ hour < 12 THEN "morning"
  ELSE IF 12 <= hour /\ hour < 17 THEN "afternoon"
  ELSE IF 17 <= hour /\ hour < 21 THEN "evening"
  ELSE IF 21 <= hour /\ hour < 24 THEN "night"
  ELSE "late_night"

\* The key of seasonal_themes _enhance_prompt uses.
SeasonalTheme(month) ==
  IF month \in {3, 4, 5} THEN "spring"
  ELSE IF month \in {6, 7, 8} THEN "summer"
  ELSE IF month \in {9, 10, 11} THEN "autumn"
  ELSE "winter"

\* BackgroundGenerator._enhance_prompt on the prompt base (lines 178-220): the
\* mood element is added for a mood of the table only.
EnhancePrompt(base, mood, hour, month) ==
  base
    \o (IF mood \in BackgroundMoods THEN <<Fragment("mood", mood)>> ELSE <<>>)
    \o <<Fragment("time", TimeTheme(hour))>>
    \o <<Fragment("season", SeasonalTheme(month))>>
    \o <<Fragment("technical", "seamless_loop")>>

\* The prompt create_mood_background hands to generate_background (lines 349-359).
MoodBasePrompt(mood, user_request) ==
  (IF mood \in BackgroundMoods THEN <<Fragment("mood", mood)>>
   ELSE <<Fragment("text", "abstract_flowing_patterns")>>)
    \o (IF user_request THEN <<Fragment("user", "user_request")>> ELSE <<>>)

\* generate_music builds its prompt and goes on to the POST (lines 138-164).
MusicPromptBuilt ==
  /\ enhanced = NoPrompt
  /\ \E mood \in MoodTags, has_text \in BOOLEAN, hour \in Hours :
       enhanced' = [by |-> "generate_music", mood |-> mood,
                    prompt |-> EnhanceCityPopPrompt(has_text, mood, hour),
                    then |-> "post"]
  /\ UNCHANGED <<message, added, votes, handled, env, stats, batch_tracked, shutdown_log,
                 clientVars, running, signalled, pollerVars, loopVars>>

\* generate_background builds its prompt and goes on to _call_firefly_api
\* (lines 141-151).
BackgroundPromptBuilt ==
  /\ enhanced = NoPrompt
  /\ \E mood \in MoodTags, hour \in Hours, month \in Months :
       enhanced' = [by |-> "generate_background", mood |-> mood,
                    prompt |-> EnhancePrompt(<<Fragment("user", "prompt")>>,
                                             mood, hour, month),
                    then |-> "submit"]
  /\ UNCHANGED <<message, added, votes, handled, env, stats, batch_tracked, shutdown_log,
                 clientVars, running, signalled, pollerVars, loopVars>>

\* create_mood_background picks the base prompt and calls generate_background with
\* it (lines 345-361).
MoodBackgroundPromptBuilt ==
  /\ enhanced = NoPrompt
  /\ \E mood \in MoodTags, user_request \in BOOLEAN, hour \in Hours,
        month \in Months :
       enhanced' = [by |-> "create_mood_background", mood |-> mood,
                    prompt |-> EnhancePrompt(MoodBasePrompt(mood, user_request),
                                             mood, hour, month),
                    then |-> "submit"]
  /\ UNCHANGED <<message, added, votes, handled, env, stats, batch_tracked, shutdown_log,
                 clientVars, running, signalled, pollerVars, loopVars>>

\* One generator call builds one prompt.
PromptNext ==
  \/ MusicPromptBuilt
  \/ BackgroundPromptBuilt
  \/ MoodBackgroundPromptBuilt

SpecPrompts == ChatInit /\ [][PromptNext]_vars

\* get_next_generation_request of the queue manager hands out the oldest request.
TakeRequest ==
  /\ request' = Head(request_queue)
  /\ dequeued' = Append(dequeued, Head(request_queue))
  /\ request_queue' = Tail(request_queue)

\* Mutant of GenerationGot: generate_music is started as a task of its own and the
\* loop goes to its sleep without waiting for it.
GenerationGot_DoesNotAwait ==
  /\ loop_pc["generation"] = "get"
  /\ \/ /\ Goto("generation", "backoff")
        /\ UNCHANGED <<clientVars, request_queue, dequeued, request>>
     \/ /\ request_queue = <<>>
        /\ request' = 0
        /\ Goto("generation", "sleep")
        /\ UNCHANGED <<clientVars, request_queue, dequeued>>
     \/ /\ request_queue # <<>>
        /\ pc[GenAttempt] = "idle"
        /\ TakeRequest
        /\ CheckAndPost(GenAttempt, "generate_music")
        /\ Goto("generation", "sleep")
  /\ UNCHANGED <<running, signalled, pollerVars, main_pc, playback_queue,
                 enqueued, chat_left, next_track, loaded, status_log, playing,
                 inputVars>>

\* get_next_generation_request returns (lines 164-186).  With a request the loop
\* calls generate_music, which runs up to the await of its POST or returns None at
\* the budget check; without one the loop sleeps.
GenerationGot ==
  /\ loop_pc["generation"] = "get"
  /\ \/ /\ Goto("generation", "backoff")
        /\ UNCHANGED <<clientVars, request_queue, dequeued, request>>
     \/ /\ request_queue = <<>>
        /\ request' = 0
        /\ Goto("generation", "sleep")
        /\ UNCHANGED <<clientVars, request_queue, dequeued>>
     \/ /\ request_queue # <<>>
        /\ pc[GenAttempt] = "idle"
        /\ TakeRequest
        /\ CheckAndPost(GenAttempt, "generate_music")
        /\ Goto("generation",
                IF UnderBudget(ResetDailyUsageIfNeeded(daily_usage, today))
                THEN "generate" ELSE "sleep")
  /\ UNCHANGED <<running, signalled, pollerVars, main_pc, playback_queue,
                 enqueued, chat_left, next_track, loaded, status_log, playing,
                 inputVars>>

\* Mutant of GenerationReturned: a request whose generation failed is put back.
GenerationReturned_Requeues ==
  /\ loop_pc["generation"] = "generate"
  /\ pc[GenAttempt] = "idle"
  /\ request' = 0
  /\ Goto("generation", "sleep")
  /\ IF returned.value = "asset"
     THEN /\ playback_queue' = Append(playback_queue, request)
          /\ UNCHANGED request_queue
     ELSE /\ request_queue' = Append(request_queue, request)
          /\ UNCHANGED playback_queue
  /\ UNCHANGED <<clientVars, running, signalled, pollerVars, main_pc,
                 enqueued, dequeued, chat_left, next_track, loaded, status_log,
                 playing, inputVars>>

\* Mutant of GenerationReturned: a request whose generation failed is sent to the
\* backend again.
GenerationReturned_Retries ==
  /\ loop_pc["generation"] = "generate"
  /\ pc[GenAttempt] = "idle"
  /\ IF returned.value = "asset"
     THEN /\ playback_queue' = Append(playback_queue, request)
          /\ request' = 0
          /\ Goto("generation", "sleep")
          /\ UNCHANGED <<pc, op>>
     ELSE /\ pc' = [pc EXCEPT ![GenAttempt] = "post"]
          /\ op' = [op EXCEPT ![GenAttempt] = "generate_music"]
          /\ UNCHANGED <<playback_queue, request, loop_pc>>
  /\ UNCHANGED <<today, daily_usage, daily_budget, cost_per_generation, prompts,
                 index, results, tracked, returned, spent, spanned, admitted,
                 running, signalled, pollerVars, main_pc, request_queue, enqueued, dequeued,
                 chat_left, next_track, loaded, status_log, playing, inputVars>>

\* Mutant of GenerationReturned: the result is logged and not added to the
\* playback queue.
GenerationReturned_DropsAsset ==
  /\ loop_pc["generation"] = "generate"
  /\ pc[GenAttempt] = "idle"
  /\ request' = 0
  /\ Goto("generation", "sleep")
  /\ UNCHANGED <<clientVars, running, signalled, pollerVars, main_pc,
                 request_queue, playback_queue, enqueued, dequeued, chat_left,
                 next_track, loaded, status_log, playing, inputVars>>

\* generate_music has returned (lines 175-186): a result is added to the playback
\* queue, None is logged; request is not read again.
GenerationReturned ==
  /\ loop_pc["generation"] = "generate"
  /\ pc[GenAttempt] = "idle"
  /\ request' = 0
  /\ IF returned.value = "asset"
     THEN \/ /\ playback_queue' = Append(playback_queue, request)
             /\ Goto("generation", "sleep")
          \/ /\ Goto("generation", "backoff")
             /\ UNCHANGED playback_queue
     ELSE /\ Goto("generation", "sleep")
          /\ UNCHANGED playback_queue
  /\ UNCHANGED <<clientVars, running, signalled, pollerVars, main_pc,
                 request_queue, enqueued, dequeued, chat_left, next_track, loaded,
                 status_log, playing, inputVars>>

\* Mutant of QueueFinished: the loop goes on to get_next_track whatever the
\* controller reports.
QueueFinished_IgnoresReport ==
  /\ loop_pc["queue"] = "finished"
  /\ \/ Goto("queue", "backoff")
     \/ Goto("queue", "next")
  /\ UNCHANGED <<clientVars, running, signalled, pollerVars, main_pc,
                 request_queue, playback_queue, enqueued, dequeued, request,
                 chat_left, next_track, loaded, playing, status_log, inputVars>>

\* is_track_finished returns or raises (line 195): the controller reports whether
\* the track it was given has ended; with no track it has nothing left to play.
\* On True the loop goes on to get_next_track, on False to its sleep.
QueueFinished ==
  /\ loop_pc["queue"] = "finished"
  /\ \/ Goto("queue", "backoff")
     \/ Goto("queue", IF playing = {} THEN "next" ELSE "sleep")
  /\ UNCHANGED <<clientVars, running, signalled, pollerVars, main_pc,
                 request_queue, playback_queue, enqueued, dequeued, request,
                 chat_left, next_track, loaded, playing, status_log, inputVars>>

\* get_next_track of the queue manager hands out the oldest generated track.
GetNextTrack ==
  /\ next_track' = Head(playback_queue)
  /\ playback_queue' = Tail(playback_queue)

\* Mutant of QueueNext: with nothing queued the loaded track is loaded again.
QueueNext_ReloadsWhenEmpty ==
  /\ loop_pc["queue"] = "next"
  /\ \/ /\ Goto("queue", "backoff")
        /\ UNCHANGED <<playback_queue, next_track>>
     \/ /\ playback_queue = <<>>
        /\ next_track' = loaded
        /\ Goto("queue", IF loaded = 0 THEN "sleep" ELSE "load")
        /\ UNCHANGED playback_queue
     \/ /\ playback_queue # <<>>
        /\ GetNextTrack
        /\ Goto("queue", "load")
  /\ UNCHANGED <<clientVars, running, signalled, pollerVars, main_pc,
                 request_queue, enqueued, dequeued, request, chat_left, loaded,
                 playing, status_log, inputVars>>

\* get_next_track returns or raises (lines 197-201).  With a track the loop calls
\* load_track; with None it goes to its sleep.
QueueNext ==
  /\ loop_pc["queue"] = "next"
  /\ \/ /\ Goto("queue", "backoff")
        /\ UNCHANGED <<playback_queue, next_track>>
     \/ /\ playback_queue = <<>>
        /\ next_track' = 0
        /\ Goto("queue", "sleep")
        /\ UNCHANGED playback_queue
     \/ /\ playback_queue # <<>>
        /\ GetNextTrack
        /\ Goto("queue", "load")
  /\ UNCHANGED <<clientVars, running, signalled, pollerVars, main_pc,
                 request_queue, enqueued, dequeued, request, chat_left, loaded,
                 playing, status_log, inputVars>>

\* load_track returns or raises (line 201).  When it returns the controller plays
\* the track; when it raises the controller may or may not have started it.
QueueLoaded ==
  /\ loop_pc["queue"] = "load"
  /\ \/ /\ loaded' = next_track
        /\ playing' = playing \union {next_track}
        /\ Goto("queue", "update")
        /\ UNCHANGED next_track
     \/ /\ Goto("queue", "backoff")
        /\ next_track' = 0
        /\ \/ UNCHANGED <<loaded, playing>>
           \/ /\ loaded' = next_track
              /\ playing' = playing \union {next_track}
  /\ UNCHANGED <<clientVars, running, signalled, pollerVars, main_pc,
                 request_queue, playback_queue, enqueued, dequeued, request,
                 chat_left, status_log, inputVars>>

\* The track the controller plays comes to its end.
TrackEnds ==
  /\ playing # {}
  /\ playing' = {}
  /\ UNCHANGED <<clientVars, running, signalled, pollerVars, main_pc, loop_pc,
                 request_queue, playback_queue, enqueued, dequeued, request,
                 chat_left, next_track, loaded, status_log, inputVars>>

\* update_track_info returns or raises (line 205); next_track is not read again.
QueueUpdated ==
  /\ loop_pc["queue"] = "update"
  /\ \E p \in {"sleep", "backoff"} : Goto("queue", p)
  /\ next_track' = 0
  /\ UNCHANGED <<clientVars, running, signalled, pollerVars, main_pc,
                 request_queue, playback_queue, enqueued, dequeued, request,
                 chat_left, loaded, status_log, playing, inputVars>>

\* The awaited reads that fill the status dict, in the order of lines 221-223.
StatusSources == {"queue_size", "generation_requests", "stream_status"}

\* Mutant of StatusSnapshot: the read of the queue size takes the oldest track
\* out of the playback queue.
StatusSnapshot_TakesTrack ==
  /\ loop_pc["status"] = "snapshot"
  /\ \E failed \in StatusSources \union {"none"} :
       IF failed = "none"
       THEN status_log' = "snapshot" /\ Goto("status", "sleep")
       ELSE status_log' = "error" /\ Goto("status", "backoff")
  /\ playback_queue' =
       IF playback_queue = <<>> THEN playback_queue ELSE Tail(playback_queue)
  /\ UNCHANGED <<clientVars, running, signalled, pollerVars, main_pc,
                 request_queue, enqueued, dequeued, request,
                 chat_left, next_track, loaded, playing, inputVars>>

\* The three reads of the status dict end (lines 219-235).  When all return, the
\* status line is logged and the loop sleeps; when one raises, the dict is never
\* built: the except clause logs the error and sleeps.
StatusSnapshot ==
  /\ loop_pc["status"] = "snapshot"
  /\ \E failed \in StatusSources \union {"none"} :
       IF failed = "none"
       THEN status_log' = "snapshot" /\ Goto("status", "sleep")
       ELSE status_log' = "error" /\ Goto("status", "backoff")
  /\ UNCHANGED <<clientVars, running, signalled, pollerVars, main_pc,
                 request_queue, playback_queue, enqueued, dequeued, request,
                 chat_left, next_track, loaded, playing, inputVars>>

\* self.components in the order of its dict (lines 46-51).
components == <<"chat_bot", "music_generator", "queue_manager", "obs_controller">>

\* shutdown() is through with a component when hasattr finds no shutdown method,
\* when the awaited shutdown returns, or when it raises an Exception, which the
\* except clause of line 246 logs.
ShutdownOutcomes == {"complete", "raised", "no_method"}

\* The components without a shutdown method that the for loop of shutdown() passes
\* without an await: any number n of them.
Skipped(n) == [i \in 1..n |-> "no_method"]

\* Mutant of ShutdownLoop: an exception of a component's shutdown ends the for loop.
ShutdownLoop_StopsAtRaise(log) ==
  IF log # <<>> /\ log[Len(log)] = "raised"
  THEN shutdown_log' = log /\ main_pc' = "done"
  ELSE /\ \E n \in 0..(Len(components) - Len(log)) :
            shutdown_log' = log \o Skipped(n)
       /\ main_pc' = IF Len(shutdown_log') = Len(components)
                     THEN "done" ELSE "shutdown"

\* The for loop of shutdown() (lines 241-247) from the components in log on, up to
\* its next await of a component's shutdown or, past the last component, to the
\* end of shutdown() and of run().
ShutdownLoop(log) ==
  /\ \E n \in 0..(Len(components) - Len(log)) :
       shutdown_log' = log \o Skipped(n)
  /\ main_pc' = IF Len(shutdown_log') = Len(components) THEN "done" ELSE "shutdown"

\* asyncio.gather returns once the four tasks have ended; the finally clause calls
\* shutdown() (lines 102-109, 237-241).
Shutdown ==
  /\ main_pc = "gather"
  /\ \A l \in Loops : loop_pc[l] = "exited"
  /\ ShutdownLoop(<<>>)
  /\ UNCHANGED <<clientVars, running, signalled, pollerVars, loop_pc,
                 request_queue, playback_queue, enqueued, dequeued, request,
                 chat_left, next_track, loaded, status_log, playing, message,
                 added, votes, handled, enhanced, env, stats, batch_tracked>>

\* The awaited shutdown of the next component ends, by returning or by raising
\* (lines 243-247), and the for loop goes on.
ComponentShutdown ==
  /\ main_pc = "shutdown"
  /\ \E raised \in BOOLEAN :
       ShutdownLoop(Append(shutdown_log, IF raised THEN "raised" ELSE "complete"))
  /\ UNCHANGED <<clientVars, running, signalled, pollerVars, loop_pc,
                 request_queue, playback_queue, enqueued, dequeued, request,
                 chat_left, next_track, loaded, status_log, playing, message,
                 added, votes, handled, enhanced, env, stats, batch_tracked>>

\* InteractiveStreamManager.__init__ leaves running False (line 36).
LoopsInit ==
  /\ ClientInit
  /\ running = FALSE
  /\ signalled = FALSE
  /\ PollerIdle
  /\ ManagerInit

LoopsNext ==
  \/ Run
  \/ Initialized
  \/ \E l \in Loops : LoopTop(l)
  \/ ChatFetched
  \/ ChatMessage
  \/ GenerationGot
  \/ PostResponds(GenAttempt)
  \/ JsonRead(GenAttempt)
  \/ DownloadAudio(GenAttempt)
  \/ GenerationReturned
  \/ QueueFinished
  \/ QueueNext
  \/ QueueLoaded
  \/ QueueUpdated
  \/ TrackEnds
  \/ StatusSnapshot
  \/ SignalHandler
  \/ Shutdown
  \/ ComponentShutdown

SpecLoops == LoopsInit /\ [][LoopsNext]_vars

\* The values os.getenv can find for a variable.
EnvValues == {"absent", "empty", "set"}

\* The process starts main() in some environment; no client is constructed yet.
StartupInit ==
  /\ ClientInit
  /\ daily_budget = 0
  /\ cost_per_generation = 1
  /\ running = FALSE
  /\ signalled = FALSE
  /\ PollerIdle
  /\ main_pc = "main"
  /\ env \in [EnvVars -> EnvValues]
  /\ ManagerFields

\* Startup: main(), run() up to the creation of the tasks, and the first step of
\* each task.
StartupNext ==
  \/ Main
  \/ Construct
  \/ Run
  \/ Initialized
  \/ \E l \in Loops : LoopTop(l)

SpecStartup == StartupInit /\ [][StartupNext]_vars

\* The event loop runs every task that is ready: a sleep ends, the backend calls of
\* generate_music end (the POST has a timeout), and the generation loop goes on.  A
\* get_next_generation_request that is called again and again on a non-empty queue
\* does not raise every time.
LoopsFairness ==
  /\ WF_vars(LoopTop("generation"))
  /\ WF_vars(PostResponds(GenAttempt))
  /\ WF_vars(JsonRead(GenAttempt))
  /\ WF_vars(DownloadAudio(GenAttempt))
  /\ WF_vars(GenerationReturned)
  /\ SF_vars(GenerationGot /\ dequeued' # dequeued)

SpecLoopsFair == LoopsInit /\ [][LoopsNext]_vars /\ LoopsFairness

\* ------------------------------------------------------------- the claims

\* A step that is one _track_usage call: the only step that raises generations.
RecordStep == daily_usage'.generations = daily_usage.generations + 1

\* A step in which _reset_daily_usage_if_needed replaces the counter.
ResetStep == daily_usage'.last_reset # daily_usage.last_reset

C2_ConcurrentOvershootBounded ==
  daily_usage.cost_estimate - daily_budget <= cost_per_generation

\* C3 as stated: after an admission check and its paired record, cost_estimate is
\* at most the daily budget.
C3_NeverExceedsBudget ==
  [][RecordStep => daily_usage'.cost_estimate <= daily_budget]_vars

\* C3 as amended: after an admission check and its paired record, with no other
\* attempt between the two, cost_estimate is less than daily_budget +
\* cost_per_generation (the counter was under budget before the record).
C3_ExceedsByLessThanOneGeneration ==
  [][RecordStep =>
       /\ daily_usage.cost_estimate < daily_budget
       /\ daily_usage'.cost_estimate < daily_budget + cost_per_generation]_vars

\* C3 witness: an attempt has just recorded and the counter is over the budget.
C3_Witness ==
  \E a \in Attempts :
    /\ pc[a] = "download"
    /\ tracked[a] = 1
    /\ daily_usage.cost_estimate > daily_budget

\* C4: an attempt that hands no asset to its caller (backend status other than
\* success, timeout, missing asset URL, failed download) has recorded no usage, and
\* no track is in the playback queue while no attempt has handed out an asset.
C4_NoRecordWithoutAsset ==
  /\ returned.value = "None" => returned.tracked = 0
  /\ (returned.value # "asset" /\ loaded = 0 /\ next_track = 0)
       => playback_queue = <<>>

\* C5: the counter is reset only when its date differs from today, to today's
\* date, and a record issued on date D+1 never adds to a counter stamped D.
C5_RecordOnCurrentDay ==
  [][/\ ResetStep => daily_usage'.last_reset = today' /\ daily_usage'.generations = 0
     /\ RecordStep => daily_usage.last_reset = today]_vars

\* A step in which the poller sends a status request.
IssuesRequest == wait_pc' \in RequestPcs /\ wait_pc' # wait_pc

\* The configured poll interval of the waiting poller.
PollInterval ==
  IF poller = "firefly" THEN FireflyPollInterval ELSE ThunderPollInterval

\* The longest one pass of the waiting poller's loop takes: its requests (one for
\* the video poller, up to three for the image poller) and the sleep after them.
IterationTime ==
  IF poller = "firefly"
  THEN MaxLatency + FireflyPollInterval
  ELSE 3 * MaxLatency + ThunderErrorBackoff

\* C6: once a request has told the poller that the job completed or failed, or the
\* poller has returned (completed, failed, timed out), it sends no further request.
C6_NoPollAfterTerminal ==
  [][(seen \in {"completed", "failed"} \/ outcome # "none") => ~IssuesRequest]_vars

\* C6 witness: a poller has returned "failed" after more than one request.
C6_Witness == outcome = "failed" /\ elapsed >= FireflyPollInterval

\* C7 as stated: each poller has returned by max_wait plus one poll interval (10 s
\* for the video poller, 2 s for the image poller).
C7_WithinMaxWaitPlusInterval == elapsed <= MaxWait + PollInterval

\* C7 as amended: each poller has returned before max_wait plus the time of one
\* pass of its loop, the requests of the pass included.
C7_WithinMaxWaitPlusIteration == elapsed < MaxWait + IterationTime

\* C7 witness: a poller has timed out later than max_wait plus its poll interval.
C7_Witness == outcome = "timed_out" /\ elapsed > MaxWait + PollInterval

\* C10: a poller that was waiting when the stop flag was set sends no further
\* request.
C10_WaitAbandonedOnStop ==
  [][(stop_pc \in RequestPcs \union {"loop", "sleep"}) => ~IssuesRequest]_vars

\* The requests 1..n in the order they were added.
InOrder(n) == [k \in 1..n |-> k]

\* C8: the requests handed to the generation loop followed by the requests still
\* queued are the requests added, in the order they were added (FIFO, none lost,
\* none handed out twice), and every queued request is handed out at some time
\* unless the stop flag ends the loop: again and again the queue is empty or the
\* flag is set.
C8_FifoExactlyOnce ==
  /\ [](dequeued \o request_queue = InOrder(enqueued))
  /\ []<>(request_queue = <<>> \/ ~running)

\* C8 witness: the requests were added by the chat loop while the generation loop ran and were
\* handed out in order.
C8_Witness ==
  /\ dequeued = InOrder(MaxRequests)
  /\ request_queue = <<>>
  /\ loop_pc["chat"] \in {"message", "sleep"}
  /\ loop_pc["generation"] = "generate"

\* C9: once the stop flag is set, no loop begins a sleep longer than its polling
\* interval, so each loop can end within one polling interval of the signal.
C9_ExitWithinOneInterval ==
  [][\A l \in Loops :
       (~running /\ loop_pc[l] # loop_pc'[l] /\ loop_pc'[l] \in {"sleep", "backoff"})
         => SleepTime(l, loop_pc'[l]) <= SleepTime(l, "sleep")]_vars

\* C11: no exception of a collaborator call ends a loop.  A loop ends only at its
\* while condition with the stop flag set, and a loop that wakes from the backoff
\* sleep of its except clause with the flag unset starts its next pass.
C11_ExceptionNeverEndsLoop ==
  [][\A l \in Loops :
       /\ (loop_pc[l] # "exited" /\ loop_pc'[l] = "exited")
            => (~running /\ loop_pc[l] \in {"top", "sleep", "backoff"})
       /\ (loop_pc[l] = "backoff" /\ loop_pc'[l] # "backoff" /\ running)
            => loop_pc'[l] = FirstAwait(l)]_vars

\* C11 witness: a call of the playback loop raised while the flag was unset; the
\* loop is in its backoff sleep and the other three loops are in their passes.
C11_Witness ==
  /\ running
  /\ loop_pc["queue"] = "backoff"
  /\ loop_pc["chat"] = "message"
  /\ loop_pc["generation"] = "generate"
  /\ loop_pc["status"] = "snapshot"

\* C12: a pass of the status loop in which one source failed has still logged the
\* snapshot of that cycle.
C12_SnapshotDespiteFailure ==
  loop_pc["status"] = "backoff" => status_log = "snapshot"

ExplicitFailure == {"failed", "error_entry"}

\* The replies of a poll that errored.
PollErrors == {"http_error", "exception"}

\* A step in which a request of the poller ends.
ReplyStep == wait_pc \in RequestPcs /\ wait_pc' # wait_pc

\* C14: a reply of explicit success ends the wait as completed, a reply of explicit
\* failure ends it as failed at that poll, and it ends as timed out only when
\* max_wait has elapsed.
C14_OutcomeFollowsBackendStatus ==
  /\ seen = "completed" => outcome = "completed"
  /\ seen \in ExplicitFailure => outcome = "failed"
  /\ outcome = "timed_out" => elapsed >= MaxWait

\* C15: a poll that errors never ends the wait.  The poller sleeps for at least its
\* poll interval, goes back to its while condition, and sends the next request
\* when the elapsed time is below max_wait.
C15_ErroringPollNeverEndsWait ==
  [][/\ (ReplyStep /\ seen' \in PollErrors)
          => (wait_pc' = "sleep" /\ outcome' = "none" /\ sleep_for' >= PollInterval)
     /\ (wait_pc = "sleep" /\ wait_pc' # "sleep") => wait_pc' = "loop"
     /\ (wait_pc = "loop" /\ wait_pc' # "loop" /\ elapsed < MaxWait)
          => wait_pc' \in RequestPcs]_vars

\* C15 witness: the image poller polls again after a poll that got an HTTP error.
C15_Witness ==
  /\ poller = "thunder"
  /\ wait_pc = "queue"
  /\ seen = "http_error"
  /\ outcome = "none"

\* C16 as stated: a submit answer with a job identifier starts the polling, and a
\* submit answer with the result makes the job completed without a status poll.
C16_SubmitDecidesPollingOrCompleted ==
  [][(wait_pc = "submit" /\ wait_pc' # "submit") =>
       /\ seen' = "job_id" => wait_pc' = "loop"
       /\ seen' = "direct_result"
            => (outcome' = "completed" /\ wait_pc' \notin RequestPcs \union {"loop"})]_vars

\* C16 as amended: a submit answer with a job identifier starts the polling; one
\* with the result and no identifier makes the video job completed without a
\* status poll, and makes generate_image return None without a status poll.
C16_DirectResultOnlyForVideo ==
  [][(wait_pc = "submit" /\ wait_pc' # "submit") =>
       /\ seen' = "job_id" => wait_pc' = "loop"
       /\ (seen' = "direct_result" /\ poller = "firefly")
            => (outcome' = "completed" /\ wait_pc' = "download")
       /\ (seen' = "direct_result" /\ poller = "thunder")
            => (outcome' = "failed" /\ wait_pc' = "done" /\ job_result' = "None")]_vars

\* C16 witness: the image backend answered without a prompt identifier and
\* generate_image returned None.
C16_Witness ==
  /\ poller = "thunder"
  /\ seen = "direct_result"
  /\ wait_pc = "done"
  /\ job_result = "None"

\* C17: a pass of the polling loop starts at the while condition, which is reached
\* from the submit answer (no poll yet) or from a sleep of at least the poll
\* interval, whatever the poll before it was told.
C17_PollsSpacedByInterval ==
  [][/\ (wait_pc' = "loop" /\ wait_pc # "loop")
          => \/ wait_pc = "submit"
             \/ wait_pc = "sleep" /\ elapsed' - elapsed >= PollInterval
     /\ (wait_pc' \in {"job", "queue"} /\ wait_pc' # wait_pc) => wait_pc = "loop"]_vars

\* C17 witness: the video poller sends a poll after one that raised.
C17_Witness ==
  /\ poller = "firefly"
  /\ wait_pc = "job"
  /\ seen = "exception"
  /\ elapsed >= FireflyPollInterval

\* A step in which the generation loop is handed a request.
DequeueStep == dequeued' # dequeued

\* A step in which generate_music sends its POST to the backend.
PostStep == pc'[GenAttempt] = "post" /\ pc[GenAttempt] # "post"

\* A step in which the generation loop gets the return value of generate_music.
ReturnStep ==
  loop_pc["generation"] = "generate" /\ loop_pc'["generation"] # "generate"

\* C18: when the budget check rejects the request just dequeued, no POST is sent,
\* the request is not put back, nothing is recorded on the usage counter, and the
\* loop goes to its sleep.
C18_RejectedRequestIsDropped ==
  [][(DequeueStep /\ ~UnderBudget(ResetDailyUsageIfNeeded(daily_usage, today))) =>
       /\ pc'[GenAttempt] = "idle"
       /\ request_queue' = Tail(request_queue)
       /\ dequeued' \o request_queue' = InOrder(enqueued')
       /\ daily_usage' = ResetDailyUsageIfNeeded(daily_usage, today)
       /\ ~RecordStep
       /\ loop_pc'["generation"] = "sleep"]_vars

\* C18 witness: the budget is used up, a request was dequeued and rejected, and the
\* generation loop sleeps with no call in flight.
C18_Witness ==
  /\ daily_budget > 0
  /\ daily_usage.cost_estimate >= daily_budget
  /\ loop_pc["generation"] = "sleep"
  /\ request = MaxRequests
  /\ pc[GenAttempt] = "idle"
  /\ request_queue = <<>>

\* C19: a POST is sent only in the step that dequeues a request, for that request;
\* after an attempt that returned None the request is not sent again and not put
\* back on the queue.
C19_AtMostOneAttemptPerRequest ==
  [][/\ PostStep => (DequeueStep /\ request' = Head(request_queue))
     /\ (ReturnStep /\ returned.value # "asset")
          => (pc'[GenAttempt] = "idle" /\ request_queue' = request_queue)
     /\ dequeued' \o request_queue' = InOrder(enqueued')]_vars

\* C19 witness: the only request was dequeued, its attempt failed after the POST,
\* and the generation loop sleeps with the request queue empty.
C19_Witness ==
  /\ enqueued = 1
  /\ dequeued = <<1>>
  /\ request_queue = <<>>
  /\ returned.value = "None"
  /\ request = 0
  /\ loop_pc["generation"] = "sleep"

\* C20 as stated: an attempt that returns an asset has recorded usage once, and the
\* asset is put on the playback queue once before the next request is dequeued.
C20_AssetQueuedAndRecordedOnce ==
  [][/\ (ReturnStep /\ returned.value = "asset")
          => /\ playback_queue' = Append(playback_queue, request)
             /\ returned.tracked = 1
     /\ DequeueStep => loop_pc["generation"] = "get"]_vars

\* C20 as amended: an attempt that returns an asset has recorded usage once, and
\* add_generated_music is called once with the asset before the next request is
\* dequeued; the asset is on the playback queue when the call returns, and is
\* dropped, the loop going to its backoff sleep, when the call raises.
C20_AssetQueuedUnlessAddRaises ==
  [][/\ (ReturnStep /\ returned.value = "asset")
          => /\ \/ playback_queue' = Append(playback_queue, request)
                \/ /\ playback_queue' = playback_queue
                   /\ loop_pc'["generation"] = "backoff"
             /\ returned.tracked = 1
     /\ Len(playback_queue') > Len(playback_queue)
          => (ReturnStep /\ returned.value = "asset")
     /\ DequeueStep => loop_pc["generation"] = "get"]_vars

\* C20 witness: the attempt returned an asset, add_generated_music raised, and the
\* generation loop is in its backoff sleep with the playback queue empty and the
\* playback loop not yet run.
C20_Witness ==
  /\ returned.value = "asset"
  /\ returned.tracked = 1
  /\ request = 0
  /\ loop_pc["generation"] = "backoff"
  /\ loop_pc["queue"] = "top"
  /\ playback_queue = <<>>

\* A step in which the playback loop takes an entry from the playback queue.
TakeStep == Len(playback_queue') < Len(playback_queue)

\* A step in which the playback loop moves from await p to await q.
QueueStep(p, q) == loop_pc["queue"] = p /\ loop_pc'["queue"] = q

\* A step that ends the playback loop's await p.
QueueLeaves(p) == loop_pc["queue"] = p /\ loop_pc'["queue"] # p

C22_AtMostOnePlaying ==
  /\ [](Cardinality(playing) <= 1)
  /\ [][playing' # playing /\ playing' # {} => playing = {}]_vars

\* A track is playing, another one waits in the playback queue, and the playback
\* loop asks the controller whether the current track is finished.
C22_Witness ==
  /\ playing # {}
  /\ playback_queue # <<>>
  /\ loaded \in playing
  /\ loop_pc["queue"] = "finished"

\* The cost recorded for the current date: what the counter holds when its date
\* is today's, nothing when it is of an earlier day.
CostToday ==
  IF daily_usage.last_reset = today THEN daily_usage.cost_estimate ELSE 0

\* A step in which coroutine a passes the budget check and sends its POST.
AdmissionStep(a) == pc[a] \in {"idle", "batch_sleep"} /\ pc'[a] = "post"

\* A step in which generate_music or extend_music returns None at the budget
\* check: no coroutine moves and the value handed back is a new None.
RejectionStep ==
  /\ pc' = pc
  /\ returned' # returned
  /\ returned'.value = "None"

\* C23: the admission check returns true if and only if, after the counter is
\* reset when its date is not today's, the cost recorded for today is strictly
\* less than the daily budget.  An attempt is admitted only when that holds and
\* rejected only when it does not, and the check leaves the reset counter behind.
C23_AdmitIffUnderBudget ==
  /\ [](CheckBudget(daily_usage, today) <=> CostToday < daily_budget)
  /\ [][\A a \in Attempts : AdmissionStep(a) =>
          /\ CostToday < daily_budget
          /\ daily_usage'.last_reset = today
          /\ daily_usage'.cost_estimate = CostToday]_vars
  /\ [][RejectionStep =>
          /\ ~(CostToday < daily_budget)
          /\ daily_usage'.last_reset = today
          /\ daily_usage'.cost_estimate = CostToday]_vars

\* The counter holds exactly the budget, recorded today by attempts that were all
\* admitted and recorded, and the check that followed returned false: the call
\* handed back None without a record.
C23_Witness ==
  /\ AllIdle
  /\ daily_budget > 0
  /\ today = 0
  /\ admitted < MaxAdmitted
  /\ admitted = daily_usage.generations
  /\ daily_usage.last_reset = today
  /\ daily_usage.cost_estimate = daily_budget
  /\ returned = [value |-> "None", tracked |-> 0, results |-> 0]

\* The budget is two per-generation costs (0.02 and 0.01 in the scenario).
TwoGenerationBudget == daily_budget = 2 * cost_per_generation

\* The generations recorded for the current date.
RecordsToday ==
  IF daily_usage.last_reset = today THEN daily_usage.generations ELSE 0

\* C24 as stated: with a budget of two per-generation costs, no more than two
\* generation attempts are admitted on one day.
C24_ExactlyTwoAdmitted == TwoGenerationBudget => admitted <= 2

\* C24 amended: with a budget of two per-generation costs, an attempt is admitted
\* only while fewer than two generations are recorded for the day, so at most two
\* generations are recorded on one day and every admission attempt after the
\* second record is rejected.  An admitted attempt that fails before its record
\* uses up none of the budget, so more than two attempts can be admitted.
C24_NoAdmissionAfterTwoRecords ==
  /\ [](TwoGenerationBudget => RecordsToday <= 2)
  /\ [][\A a \in Attempts :
          TwoGenerationBudget /\ AdmissionStep(a) => RecordsToday < 2]_vars
  /\ [][TwoGenerationBudget /\ RecordsToday = 2 /\ today' = today =>
          admitted' = admitted]_vars

\* Two attempts were admitted and recorded today, and a third call was rejected at
\* the budget check.
C24_Witness ==
  /\ TwoGenerationBudget
  /\ AllIdle
  /\ admitted = 2
  /\ RecordsToday = 2
  /\ returned = [value |-> "None", tracked |-> 0, results |-> 0]

\* A step that is one whole _process_chat_message call.
ProcessStep == message # NoMessage /\ message' = NoMessage

\* Message m is the marker followed by verb v, the verb in any letter case.
HasVerb(m, v) ==
  /\ m.text.marker
  /\ m.text.words # <<>>
  /\ Lower(m.text.words[1]) = v

\* The free text after the verb of message m, as its author typed it.
FreeText(m) == Tail(m.text.words)

\* C25: a message '<marker>generate <free text>' or '<marker>mood <free text>'
\* from author a, the verb in any letter case, enqueues exactly one request of that
\* kind whose text is the free text after the verb and whose requester is a; a
\* text without the marker enqueues nothing and records no vote.
C25_CommandEnqueuesTypedText ==
  [][ProcessStep /\ handled' = "returned" =>
       /\ \A v \in {"generate", "mood"} :
            HasVerb(message, v) /\ FreeText(message) # <<>> =>
              /\ enqueued' = enqueued + 1
              /\ request_queue' = Append(request_queue, enqueued + 1)
              /\ added' = [kind |-> v, text |-> FreeText(message),
                           author |-> message.author]
       /\ ~message.text.marker =>
              /\ UNCHANGED <<request_queue, enqueued, votes>>
              /\ added' = NoRequest]_vars

\* C26: vote tokens are case-normalized: vote commands whose tokens differ only in
\* letter case are counted under the same tally token, the upper-case form of the
\* token, and under no other.
C26_VoteTokensCaseNormalized ==
  /\ [](\A w1, w2 \in Words :
          Lower(w1) = Lower(w2) =>
            VoteOf([marker |-> TRUE, words |-> <<"vote", w1>>])
              = VoteOf([marker |-> TRUE, words |-> <<"VOTE", w2>>]))
  /\ [][ProcessStep /\ HasVerb(message, "vote") /\ FreeText(message) # <<>>
          /\ handled' = "returned" =>
          votes' = [votes EXCEPT ![Upper(message.text.words[2])] = @ + 1]]_vars

\* Two votes were counted, both under the upper-case token.
C26_Witness ==
  /\ message = NoMessage
  /\ handled = "returned"
  /\ votes["JAZZY"] = 2

\* C27: a command with a known verb (generate, mood, vote) and no argument is
\* dropped silently: the call returns without an exception, enqueues no request
\* and counts no vote.
C27_VerbWithoutArgumentDropped ==
  [][ProcessStep /\ (\E v \in Verbs : HasVerb(message, v))
       /\ FreeText(message) = <<>> =>
       /\ handled' = "returned"
       /\ added' = NoRequest
       /\ UNCHANGED <<request_queue, enqueued, votes>>]_vars

\* _process_chat_message is running on a verb that has no argument, with a request
\* already queued.
C27_Witness ==
  /\ \E v \in Verbs : HasVerb(message, v)
  /\ FreeText(message) = <<>>
  /\ request_queue # <<>>

\* C28: processing a vote command changes the vote tally only: it adds, removes
\* and reorders nothing in the generation-request queue, which stays in enqueue
\* order whatever votes arrive.
C28_VoteLeavesRequestQueue ==
  /\ [][ProcessStep /\ HasVerb(message, "vote") =>
          UNCHANGED <<request_queue, enqueued, dequeued, added>>]_vars
  /\ [](request_queue = InOrder(enqueued))

\* Two requests are queued, a vote has been counted, and the call that just
\* returned added no request.
C28_Witness ==
  /\ Len(request_queue) = 2
  /\ SumVotes(Tokens) > 0
  /\ message = NoMessage
  /\ handled = "returned"
  /\ added = NoRequest

\* The mood table of the method that built the latest prompt.
MoodTable ==
  IF enhanced.by = "generate_music" THEN CityPopMoods ELSE BackgroundMoods

\* The moods whose prompt element is part of the latest prompt.
MoodsInPrompt ==
  {enhanced.prompt[i].of :
     i \in {j \in 1..Len(enhanced.prompt) : enhanced.prompt[j].part = "mood"}}

\* A prompt was built for a mood tag that its method's table does not have.
UnknownMoodBuilt == enhanced.by # "none" /\ enhanced.mood \notin MoodTable

NoLoopStarted == \A l \in Loops : loop_pc[l] = "not_started"

\* Startup ended without run() reaching the creation of the tasks: sys.exit(1) of
\* main(), an exception of a constructor, or initialize() returning False.
StartupFailed == main_pc \in {"exited", "crashed", "returned"}

\* C30 as stated: when a required credential or the budget value is missing from
\* the environment at startup, or component initialization fails, none of the four
\* run loops is ever started.
C30_NoLoopWithoutCredentialOrBudget ==
  ((\E v \in EnvVars : env[v] = "absent") \/ StartupFailed) => NoLoopStarted

\* C30 amended: when one of the three required credentials is absent or empty, or
\* the budget value is empty, or a constructor or initialize() fails, none of the
\* four run loops is ever started.  An absent budget value is no error: the client
\* is constructed with the default budget.
C30_NoLoopWithoutCredential ==
  /\ [](MissingEnv(env) # {} => NoLoopStarted)
  /\ [](env["DAILY_BUDGET_USD"] = "empty" => NoLoopStarted)
  /\ [](StartupFailed => NoLoopStarted)
  /\ [][StartupFailed => (StartupFailed' /\ NoLoopStarted')]_vars
  /\ []((env["DAILY_BUDGET_USD"] = "absent"
          /\ main_pc \in {"constructed", "initializing", "gather", "returned"})
        => daily_budget = DefaultBudget)

\* run() has returned because initialize() failed, in an environment that lacks
\* nothing; no task was created.
C30_Witness ==
  /\ main_pc = "returned"
  /\ env = FullEnv
  /\ NoLoopStarted

\* The status loop takes a step: its task runs from one await to the next.
StatusStep == loop_pc'["status"] # loop_pc["status"]

\* C31: the status loop is read-only: no step of it changes the request queue, the
\* playback queue, the vote tally or the usage counter.
C31_StatusLoopReadOnly ==
  [][StatusStep =>
       UNCHANGED <<request_queue, playback_queue, votes, daily_usage>>]_vars

\* C31 witness: a snapshot was logged while requests and tracks were queued and a
\* generation was recorded.
C31_Witness ==
  /\ status_log = "snapshot"
  /\ loop_pc["status"] = "sleep"
  /\ request_queue # <<>>
  /\ playback_queue # <<>>
  /\ daily_usage.generations > 0

\* C32 as stated: a shutdown signal is never lost: once _signal_handler has run,
\* the running flag stays false for the rest of the execution, also when the
\* signal arrives while run() is still in initialize().
C32_SignalNeverLost == signalled => ~running

\* C33 as stated: every message of a fetched chat batch is processed: a message
\* that is only the marker does not keep the chat loop from the messages that
\* follow it in the batch.
C33_BareMarkerKeepsBatch ==
  [][(ProcessStep /\ loop_pc["chat"] = "message"
        /\ KindOf(message.text) = "bare_marker")
       => chat_left' = chat_left - 1]_vars

\* C34 as stated: no track is lost between the playback queue and the controller:
\* the playback loop lets go of a track it took from the queue only when the
\* controller has loaded it, also when load_track raised on the first try.
C34_TakenTrackIsLoaded ==
  [][(next_track # 0 /\ next_track' # next_track) => loaded' = next_track]_vars

\* The generate_music call of the generation loop is between its budget check and
\* its return.
InFlight == pc[GenAttempt] # "idle"

\* C35: the generation loop has at most one generation attempt in flight: an
\* attempt is in flight only while the loop awaits generate_music, a request is
\* dequeued only when no attempt is in flight, and while an attempt is in flight no
\* other admission check passes and no request is dequeued.
C35_OneAttemptInFlight ==
  /\ [](InFlight => loop_pc["generation"] = "generate")
  /\ [][Len(dequeued') > Len(dequeued) => ~InFlight]_vars
  /\ [][(InFlight /\ InFlight') =>
          (admitted' = admitted /\ dequeued' = dequeued)]_vars

\* C35 witness: an attempt waits for the backend while the next request is queued.
C35_Witness ==
  /\ pc[GenAttempt] = "post"
  /\ loop_pc["generation"] = "generate"
  /\ request_queue # <<>>

\* C36: every usage record is preceded, within the same attempt, by a budget check
\* that returned true: _track_usage runs only in an attempt that has its HTTP 200
\* answer, an attempt gets there only from its POST, and an attempt sends its POST
\* only in a step in which the budget check holds.
C36_RecordOnlyAfterPassedCheck ==
  [][/\ RecordStep => \E a \in Attempts : pc[a] = "json" /\ pc'[a] # "json"
     /\ \A a \in Attempts :
          /\ (pc'[a] = "json" /\ pc[a] # "json") => pc[a] = "post"
          /\ (pc'[a] = "post" /\ pc[a] # "post") =>
               /\ pc[a] \in {"idle", "batch_sleep"}
               /\ CheckBudget(daily_usage, today)]_vars

\* C36 witness: extend_music has recorded its usage and downloads the audio.
C36_Witness ==
  \E a \in Attempts :
    /\ op[a] = "extend_music"
    /\ pc[a] = "download"
    /\ tracked[a] = 1
    /\ daily_usage.generations > 0

C38_StatsAgreeWithCheck ==
  (stats.called /\ stats = UsageStats(daily_usage)
     /\ daily_usage.last_reset = today) =>
    /\ (stats.generations_remaining = 0 <=> ~CheckBudget(daily_usage, today))
    /\ stats.generations_remaining >= 0
    /\ stats.budget_remaining + stats.daily_cost = daily_budget

\* Coroutine a is inside a generate_batch call.
InBatch(a) == op[a] = "generate_batch"

\* C39: generate_batch takes its prompts in order, one index after the other, and
\* ends at the first prompt whose budget check fails without a POST for it; a
\* result is appended only in the pass of its own prompt, so the list keeps prompt
\* order; and the list is never longer than the number of usage records made
\* since the batch began.
C39_BatchStopsAtFailedCheck ==
  /\ [](\A a \in Attempts :
          InBatch(a) => (results[a] <= batch_tracked[a] /\ index[a] < prompts[a]))
  /\ [][\A a \in Attempts :
          /\ (pc[a] = "batch_sleep" /\ pc'[a] # "batch_sleep") =>
               IF CheckBudget(daily_usage, today)
               THEN pc'[a] = "post" /\ index'[a] = index[a] + 1
               ELSE /\ pc'[a] = "idle"
                    /\ returned' = [value |-> "list", tracked |-> tracked[a],
                                    results |-> results[a]]
                    /\ ~RecordStep
          /\ (~InBatch(a) /\ InBatch(a)') =>
               (CheckBudget(daily_usage, today) /\ index'[a] = 0
                  /\ results'[a] = 0 /\ pc'[a] = "post")
          /\ (InBatch(a) /\ InBatch(a)') =>
               /\ index'[a] \in {index[a], index[a] + 1}
               /\ results'[a] \in {results[a], results[a] + 1}
               /\ results'[a] > results[a] => index'[a] = index[a]
          /\ (InBatch(a) /\ ~InBatch(a)') =>
               /\ returned'.value = "list"
               /\ returned'.results <= batch_tracked[a] + (IF RecordStep THEN 1 ELSE 0)
               /\ returned'.results \in {results[a], results[a] + 1}]_vars

\* C39 witness: a batch has made one usage record and got one result for its first
\* prompt, and sleeps before a second prompt that the budget no longer admits.
C39_Witness ==
  \E a \in Attempts :
    /\ pc[a] = "batch_sleep"
    /\ index[a] = 0
    /\ results[a] = 1
    /\ batch_tracked[a] = 1
    /\ ~CheckBudget(daily_usage, today)

\* shutdown() has been called.
ShutdownCalled == main_pc \in {"shutdown", "done"}

\* C40: shutdown() is entered only from the gather of run() and only when the four
\* loops have ended, it is never entered again, it goes through the registered
\* components one at a time in their order, and it ends only when it has been
\* through every one of them, whatever the shutdown of an earlier one did.
C40_ShutdownOnceThroughAllComponents ==
  /\ [](ShutdownCalled => \A l \in Loops : loop_pc[l] = "exited")
  /\ [](main_pc = "done" => Len(shutdown_log) = Len(components))
  /\ [](~ShutdownCalled => shutdown_log = <<>>)
  /\ [][/\ (ShutdownCalled' /\ ~ShutdownCalled) => main_pc = "gather"
        /\ ShutdownCalled => ShutdownCalled'
        /\ main_pc = "done" => UNCHANGED <<main_pc, shutdown_log>>
        /\ shutdown_log' # shutdown_log =>
             /\ Len(shutdown_log') > Len(shutdown_log)
             /\ SubSeq(shutdown_log', 1, Len(shutdown_log)) = shutdown_log]_vars

\* C40 witness: shutdown() has ended after the shutdown of the first component
\* raised and the shutdown of the last one returned.
C40_Witness ==
  /\ main_pc = "done"
  /\ Len(shutdown_log) = Len(components)
  /\ shutdown_log[1] = "raised"
  /\ shutdown_log[Len(components)] = "complete"

====
